---- MODULE Spec2Model ----
(***************************************************************************)
(* Model of the clip-path resolver, its per-frame cache and the paint      *)
(* walker of blitz-paint (packages/blitz-paint/src/render.rs).             *)
(*                                                                         *)
(* A contour (Rc<BezPath>) is a record: `rc` is the identity of the shared *)
(* allocation, `node` the element whose frame the contour was built from,  *)
(* `kind` what built it and `len` a representative length of the contour   *)
(* (the width of the frame it was built from, times every scale applied).  *)
(***************************************************************************)
EXTENDS Integers, Sequences, FiniteSets, TLC

\* ---------------------------------------------------------------- bounds
MaxNodes == 3
MaxScale == 2
MaxCalls == 3
\* BlitzDomPainter::height, the viewport height in device pixels
ViewportHeight == 100

Nodes == 1..MaxNodes
\* device scale factors: 1 (contours are returned as cached) and a factor above 1
Scales == {1, MaxScale}
\* fragment 0: the url has no fragment, or no element carries that id
Fragments == 0..MaxNodes

VARIABLES
    tree,               \* self.dom.tree(): node id -> the node's style and layout
    scale,              \* BlitzDomPainter::scale
    view,               \* viewport scroll, canvas background and devtools of the pass
    clip_path_cache,    \* BlitzDomPainter::clip_path_cache
    cached_clip_path,   \* Node::cached_clip_path, written by set_cached_clip_path
    visited,            \* the HashSet of one clip_path_from_styles call
    stack,              \* call chain of clip_path_from_styles_inner
    call,               \* element of the clip_path_from_styles call in progress, 0 if none
    result,             \* what the last clip_path_from_styles call returned
    last_ret,           \* the latest return of clip_path_from_styles_inner in this call
    calls,              \* per element: contours built for it so far in this pass
    painting,           \* paint_scene: "idle" before, "walk" during, "done" after the pass
    pstack,             \* call chain of render_element
    trace,              \* the calls made on the scene and the sub-draws, in order
    shape_call,         \* the function or handler under call and its arguments
    shape_ret,          \* what that call returned, Pending until it has
    doc,                \* BaseDocument: the nodes, the focus and the mouse-down node
    handled             \* the event handled last, and the document it found

resolver_vars == <<clip_path_cache, cached_clip_path, visited, stack, call,
                   result, last_ret, calls>>
paint_vars == <<view, painting, pstack, trace>>
shape_vars == <<shape_call, shape_ret>>
vars == <<tree, scale, view, clip_path_cache, cached_clip_path, visited, stack, call,
          result, last_ret, calls, painting, pstack, trace, shape_call, shape_ret,
          doc, handled>>

\* ---------------------------------------------------------------- shape geometry
\* f64 values are held as integers counting thousandths: One is 1.0
One == 1000
MaxCoord == 3
\* the longest list of shape commands
MaxCmds == 3
Mul(a, b) == (a * b) \div One
Div(a, b) == (a * One) \div b
Min(a, b) == IF a < b THEN a ELSE b
Max(a, b) == IF a > b THEN a ELSE b
\* f64::INFINITY: above every value of the model
Infinity == 1000000000
Fold(Op(_, _), init, seq) ==
    LET RECURSIVE F(_)
        F(k) == IF k = 0 THEN init ELSE Op(F(k - 1), seq[k])
    IN F(Len(seq))

Pt(x, y) == [x |-> x, y |-> y]
Rect(x0, y0, x1, y1) == [x0 |-> x0, y0 |-> y0, x1 |-> x1, y1 |-> y1]
width(r) == r.x1 - r.x0
height(r) == r.y1 - r.y0
origin(r) == Pt(r.x0, r.y0)

\* Unpacked: a length in px, a percentage (a fraction of 1.0), or a calc() of both
Length(px) == [tag |-> "Length", px |-> px, pct |-> 0]
Percentage(pct) == [tag |-> "Percentage", px |-> 0, pct |-> pct]
Calc(px, pct) == [tag |-> "Calc", px |-> px, pct |-> pct]

resolve_unpacked_value_ignores_axis(unpacked, axis) ==
    CASE unpacked.tag = "Length" -> unpacked.px
      [] unpacked.tag = "Percentage" -> unpacked.pct
      [] unpacked.tag = "Calc" -> unpacked.px + Mul(axis, unpacked.pct)

resolve_unpacked_value(unpacked, axis) ==
    CASE unpacked.tag = "Length" -> unpacked.px
      [] unpacked.tag = "Percentage" -> Mul(axis, unpacked.pct)
      [] unpacked.tag = "Calc" -> unpacked.px + Mul(axis, unpacked.pct)

resolve_non_negative_length_percentage_value(value, axis) ==
    resolve_unpacked_value(value, axis)

Auto == [tag |-> "Auto"]
Position(h, v) == [tag |-> "Position", horizontal |-> h, vertical |-> v]

resolve_shape_position_from_zero(position, reference_rect) ==
    IF position.tag = "Position"
    THEN Pt(origin(reference_rect).x
              + resolve_unpacked_value(position.horizontal, width(reference_rect)),
            origin(reference_rect).y
              + resolve_unpacked_value(position.vertical, height(reference_rect)))
    ELSE Pt(width(reference_rect) \div 2, height(reference_rect) \div 2)

resolve_shape_position(position, reference_rect) ==
    IF position.tag = "Position"
    THEN Pt(origin(reference_rect).x
              + resolve_unpacked_value(position.horizontal, width(reference_rect)),
            origin(reference_rect).y
              + resolve_unpacked_value(position.vertical, height(reference_rect)))
    ELSE Pt(origin(reference_rect).x + width(reference_rect) \div 2,
            origin(reference_rect).y + height(reference_rect) \div 2)

ClosestSide == [tag |-> "ClosestSide"]
FarthestSide == [tag |-> "FarthestSide"]
RadiusLength(value) == [tag |-> "Length", value |-> value]

resolve_shape_radius_of_x_only(radius, center, reference_rect, axis) ==
    LET distances == << center.x - reference_rect.x0, reference_rect.x1 - center.x >>
    IN CASE radius.tag = "Length" ->
              resolve_non_negative_length_percentage_value(radius.value, axis)
         [] radius.tag = "ClosestSide" -> Fold(Min, Infinity, distances)
         [] radius.tag = "FarthestSide" -> Fold(Max, 0, distances)

resolve_shape_radius(radius, center, reference_rect, axis) ==
    LET distances == << center.x - reference_rect.x0, reference_rect.x1 - center.x,
                        center.y - reference_rect.y0, reference_rect.y1 - center.y >>
    IN CASE radius.tag = "Length" ->
              resolve_non_negative_length_percentage_value(radius.value, axis)
         [] radius.tag = "ClosestSide" -> Fold(Min, Infinity, distances)
         [] radius.tag = "FarthestSide" -> Fold(Max, 0, distances)

\* f64::sqrt, rounded down to a thousandth
Sqrt(v) ==
    LET RECURSIVE Search(_, _)
        Search(lo, hi) ==
            IF lo = hi THEN lo
            ELSE LET mid == (lo + hi + 1) \div 2
                 IN IF mid * mid <= v * One THEN Search(mid, hi) ELSE Search(lo, mid - 1)
    IN Search(0, Min(v + One, 46 * One))

expand_polygon_point_along_x(point, bounding_box_center, margin) ==
    IF margin <= 0 THEN point
    ELSE IF point = bounding_box_center THEN point
    ELSE Pt(point.x + margin, point.y)

expand_polygon_point(point, bounding_box_center, margin) ==
    IF margin <= 0 THEN point
    ELSE LET dx == point.x - bounding_box_center.x
             dy == point.y - bounding_box_center.y
             dist == Sqrt(Mul(dx, dx) + Mul(dy, dy))
         IN IF dist > 0
            THEN LET scale_ == Div(dist + margin, dist)
                 IN Pt(bounding_box_center.x + Mul(dx, scale_),
                       bounding_box_center.y + Mul(dy, scale_))
            ELSE point

\* ---- geometry boxes and the rect-type shapes
resolve_length_percentage_value(value, axis) ==
    resolve_unpacked_value(value, axis)

\* a CssBox: its four rectangles; the contour a method of it builds stands for itself
CssBox(border_box, padding_box, content_box, margin_box) ==
    [border_box |-> border_box, padding_box |-> padding_box,
     content_box |-> content_box, margin_box |-> margin_box]
border_box_path(frame) == [path |-> "border_box_path", frame |-> frame]
padding_box_path(frame) == [path |-> "padding_box_path", frame |-> frame]
content_box_path(frame) == [path |-> "content_box_path", frame |-> frame]
margin_box_path(frame) == [path |-> "margin_box_path", frame |-> frame]
rect_path(frame, x0, y0, x1, y1, radii) ==
    [path |-> "rect_path", frame |-> frame, x0 |-> x0, y0 |-> y0, x1 |-> x1, y1 |-> y1,
     radii |-> radii]

\* ShapeGeometryBox
ShapeBox(shape_box) == [tag |-> "ShapeBox", shape_box |-> shape_box]
FillBox == [tag |-> "FillBox", shape_box |-> "none"]
StrokeBox == [tag |-> "StrokeBox", shape_box |-> "none"]
ViewBox == [tag |-> "ViewBox", shape_box |-> "none"]
ElementDependent == [tag |-> "ElementDependent", shape_box |-> "none"]

\* clip_path_for_geometry_box(frame, geometry_box), the contour itself
geometry_box_path(frame, geometry_box) ==
    IF geometry_box.tag = "ShapeBox"
    THEN CASE geometry_box.shape_box = "BorderBox" -> border_box_path(frame)
           [] geometry_box.shape_box = "PaddingBox" -> padding_box_path(frame)
           [] geometry_box.shape_box = "ContentBox" -> content_box_path(frame)
           [] geometry_box.shape_box = "MarginBox" -> margin_box_path(frame)
    ELSE border_box_path(frame)

reference_rect_for_geometry_box_svg_as_content(frame, geometry_box) ==
    IF geometry_box.tag = "ShapeBox"
    THEN CASE geometry_box.shape_box = "BorderBox" -> frame.border_box
           [] geometry_box.shape_box = "PaddingBox" -> frame.padding_box
           [] geometry_box.shape_box = "ContentBox" -> frame.content_box
           [] geometry_box.shape_box = "MarginBox" -> frame.margin_box
    ELSE frame.content_box

reference_rect_for_geometry_box(frame, geometry_box) ==
    IF geometry_box.tag = "ShapeBox"
    THEN CASE geometry_box.shape_box = "BorderBox" -> frame.border_box
           [] geometry_box.shape_box = "PaddingBox" -> frame.padding_box
           [] geometry_box.shape_box = "ContentBox" -> frame.content_box
           [] geometry_box.shape_box = "MarginBox" -> frame.margin_box
    ELSE frame.border_box

\* InsetRect: the four edge offsets (top, right, bottom, left) and the corner radii
InsetRect(top, right, bottom, left, round) ==
    [rect |-> <<top, right, bottom, left>>, round |-> round]

\* basic_shape_to_path for GenericBasicShape::Rect, the contour itself
rect_shape_to_path_unsorted(frame, rect, reference_rect, shape_margin) ==
    LET origin_x == origin(reference_rect).x
        origin_y == origin(reference_rect).y
        box_width == width(reference_rect)
        box_height == height(reference_rect)
        top == resolve_length_percentage_value(rect.rect[1], box_height)
        right == resolve_length_percentage_value(rect.rect[2], box_width)
        bottom == resolve_length_percentage_value(rect.rect[3], box_height)
        left == resolve_length_percentage_value(rect.rect[4], box_width)
        r(corner) == resolve_non_negative_length_percentage_value(corner, box_width)
    IN rect_path(frame, origin_x + left - shape_margin, origin_y + top - shape_margin,
                 origin_x + box_width - right + shape_margin,
                 origin_y + box_height - bottom + shape_margin,
                 <<r(rect.round.top_left), r(rect.round.top_right),
                   r(rect.round.bottom_right), r(rect.round.bottom_left)>>)

rect_shape_to_path(frame, rect, reference_rect, shape_margin) ==
    LET origin_x == origin(reference_rect).x
        origin_y == origin(reference_rect).y
        box_width == width(reference_rect)
        box_height == height(reference_rect)
        top == resolve_length_percentage_value(rect.rect[1], box_height)
        right == resolve_length_percentage_value(rect.rect[2], box_width)
        bottom == resolve_length_percentage_value(rect.rect[3], box_height)
        left == resolve_length_percentage_value(rect.rect[4], box_width)
        x0_raw == origin_x + left - shape_margin
        y0_raw == origin_y + top - shape_margin
        x1_raw == origin_x + box_width - right + shape_margin
        y1_raw == origin_y + box_height - bottom + shape_margin
        r(corner) == resolve_non_negative_length_percentage_value(corner, box_width)
    IN rect_path(frame, Min(x0_raw, x1_raw), Min(y0_raw, y1_raw),
                 Max(x0_raw, x1_raw), Max(y0_raw, y1_raw),
                 <<r(rect.round.top_left), r(rect.round.top_right),
                   r(rect.round.bottom_right), r(rect.round.bottom_left)>>)

\* ---- the arc converter: endpoint to center parametrization
\* angles in thousandths of a radian; cos, sin and acos at the values the quarter
\* and half turns of a circle produce
Pi == 3142
HalfPi == 1571
cos(deg) == CASE deg = 0 -> One [] deg = 90 -> 0 [] deg = 180 -> 0 - One
sin(deg) == CASE deg = 0 -> 0 [] deg = 90 -> One [] deg = 180 -> 0
acos(c) == CASE c = One -> 0 [] c = 0 -> HalfPi [] c = 0 - One -> Pi
\* f64::signum: 1.0 for a positive number and for +0.0, -1.0 for a negative one
signum(x) == IF x >= 0 THEN 1 ELSE 0 - 1
length(v) == Sqrt(Mul(v.x, v.x) + Mul(v.y, v.y))
angle(u, v) ==
    LET sign == signum(Mul(u.x, v.y) - Mul(u.y, v.x))
    IN sign * acos(Div(Mul(u.x, v.x) + Mul(u.y, v.y), Mul(length(u), length(v))))
Arc(center, radii, start_angle, sweep_angle, x_rotation) ==
    [center |-> center, radii |-> radii, start_angle |-> start_angle,
     sweep_angle |-> sweep_angle, x_rotation |-> x_rotation]

stylo_to_kurbo_arc(start, end, radii, arc_sweep, arc_size, x_axis_rotation) ==
    LET rx == radii.x
        ry == radii.y
        sweep == arc_sweep = "Cw"
        large_arc == arc_size = "Large"
        phi == x_axis_rotation
        half_del_x == (start.x - end.x) \div 2
        half_del_y == (start.y - end.y) \div 2
        x1_prime == Mul(cos(phi), half_del_x) + Mul(sin(phi), half_del_y)
        y1_prime == Mul(0 - sin(phi), half_del_x) + Mul(cos(phi), half_del_y)
        sq(a) == Mul(a, a)
        root == Sqrt(Div(sq(Mul(rx, ry)) - sq(Mul(rx, y1_prime)) - sq(Mul(ry, x1_prime)),
                         sq(Mul(rx, y1_prime)) + sq(Mul(ry, x1_prime))))
        coeff == IF sweep = large_arc THEN 0 - root ELSE root
        cx_prime == Div(Mul(Mul(coeff, rx), y1_prime), ry)
        cy_prime == Div(Mul(Mul(0 - coeff, ry), x1_prime), rx)
        mean_x == (start.x + end.x) \div 2
        mean_y == (start.y + end.y) \div 2
        cx == Mul(cos(phi), cx_prime) - Mul(sin(phi), cy_prime) + mean_x
        cy == Mul(sin(phi), cx_prime) + Mul(cos(phi), cy_prime) + mean_y
        v1 == Pt(Div(x1_prime - cx_prime, rx), Div(y1_prime - cy_prime, ry))
        theta1 == angle(Pt(One, 0), v1)
        v2 == Pt(Div((0 - x1_prime) - cx_prime, rx), (0 - y1_prime) - Div(cy_prime, ry))
        angle_degree == angle(v1, v2)
        del_theta == IF sweep /\ angle_degree > 0 THEN angle_degree - 360 * One
                     ELSE IF ~sweep /\ angle_degree < 0 THEN angle_degree + 360 * One
                     ELSE angle_degree
    IN Arc(Pt(cx, cy), radii, theta1, del_theta, x_axis_rotation)

\* ---- the path builder: shape commands to a contour
\* CommandEndPoint
ToPosition(x, y) == [by_to |-> "to", x |-> x, y |-> y]
ByCoordinate(x, y) == [by_to |-> "by", x |-> x, y |-> y]
\* GenericShapeCommand
MoveCmd(point) == [cmd |-> "Move", point |-> point]
LineCmd(point) == [cmd |-> "Line", point |-> point]
HLineCmd(by_to, x) == [cmd |-> "HLine", by_to |-> by_to, x |-> x]
VLineCmd(by_to, y) == [cmd |-> "VLine", by_to |-> by_to, y |-> y]
QuadCurveCmd(point, control1) == [cmd |-> "QuadCurve", point |-> point, control1 |-> control1]
CubicCurveCmd(point, control1, control2) ==
    [cmd |-> "CubicCurve", point |-> point, control1 |-> control1, control2 |-> control2]
SmoothQuadCmd(point) == [cmd |-> "SmoothQuad", point |-> point]
SmoothCubicCmd(point, control2) == [cmd |-> "SmoothCubic", point |-> point, control2 |-> control2]
ArcCmd(point, radii, arc_sweep, arc_size, rotate) ==
    [cmd |-> "Arc", point |-> point, radii |-> radii, arc_sweep |-> arc_sweep,
     arc_size |-> arc_size, rotate |-> rotate]
CloseCmd == [cmd |-> "Close"]
\* kurbo::PathEl; the elements of an arc stand for the call that produces them
MoveTo(p) == [el |-> "MoveTo", p |-> p]
LineTo(p) == [el |-> "LineTo", p |-> p]
QuadTo(c, p) == [el |-> "QuadTo", c1 |-> c, p |-> p]
CurveTo(c1, c2, p) == [el |-> "CurveTo", c1 |-> c1, c2 |-> c2, p |-> p]
ClosePath == [el |-> "ClosePath"]
ArcTo(start, p, radii, arc_sweep, arc_size, rotate) ==
    [el |-> "ArcTo", start |-> start, p |-> p, radii |-> radii, arc_sweep |-> arc_sweep,
     arc_size |-> arc_size, rotate |-> rotate]
\* Option<Point>
NoPoint == [some |-> FALSE]
SomePoint(p) == [some |-> TRUE, point |-> p]

reflect_point(control, center) == Pt(2 * center.x - control.x, 2 * center.y - control.y)
coordinate_pair_to_point(pair) == Pt(pair.x, pair.y)
resolve_endpoint_absolute(point, current) ==
    IF point.by_to = "to" THEN Pt(point.x, point.y)
    ELSE Pt(current.x + point.x, current.y + point.y)
\* the path after ensure_path_started(&mut path, &mut has_started, current)
ensure_path_started(s) ==
    IF ~s.has_started THEN Append(s.path, MoveTo(s.current_point)) ELSE s.path

\* the locals of commands_to_bez_path before the loop
BezStart ==
    [path |-> <<>>, current_point |-> Pt(0, 0), subpath_start |-> Pt(0, 0),
     has_started |-> FALSE, last_quad_ctrl |-> NoPoint, last_cubic_ctrl |-> NoPoint]

\* the arms of the match, each from the locals before the command to those after it
arm_Move(s, c) ==
    LET target == resolve_endpoint_absolute(c.point, s.current_point)
    IN [path |-> Append(s.path, MoveTo(target)), current_point |-> target,
        subpath_start |-> target, has_started |-> TRUE,
        last_quad_ctrl |-> NoPoint, last_cubic_ctrl |-> NoPoint]

arm_Line_keeps_controls(s, target) ==
    [s EXCEPT !.path = Append(ensure_path_started(s), LineTo(target)),
              !.current_point = target, !.has_started = TRUE]

\* Line, HLine and VLine, once their target is known
arm_Line(s, target) ==
    [s EXCEPT !.path = Append(ensure_path_started(s), LineTo(target)),
              !.current_point = target, !.has_started = TRUE,
              !.last_quad_ctrl = NoPoint, !.last_cubic_ctrl = NoPoint]

arm_HLine(s, c) ==
    arm_Line(s, IF c.by_to = "to" THEN Pt(c.x, s.current_point.y)
                ELSE Pt(s.current_point.x + c.x, s.current_point.y))

arm_VLine(s, c) ==
    arm_Line(s, IF c.by_to = "to" THEN Pt(s.current_point.x, c.y)
                ELSE Pt(s.current_point.x, s.current_point.y + c.y))

arm_Arc(s, c) ==
    LET target == resolve_endpoint_absolute(c.point, s.current_point)
    IN [s EXCEPT !.path = Append(ensure_path_started(s),
                                 ArcTo(s.current_point, target, Pt(c.radii.x, c.radii.y),
                                       c.arc_sweep, c.arc_size, c.rotate)),
                 !.current_point = target, !.has_started = TRUE,
                 !.last_quad_ctrl = NoPoint, !.last_cubic_ctrl = NoPoint]

arm_QuadCurve(s, c) ==
    LET control == coordinate_pair_to_point(c.control1)
        target == resolve_endpoint_absolute(c.point, s.current_point)
    IN [s EXCEPT !.path = Append(ensure_path_started(s), QuadTo(control, target)),
                 !.current_point = target, !.has_started = TRUE,
                 !.last_quad_ctrl = SomePoint(control), !.last_cubic_ctrl = NoPoint]

arm_CubicCurve(s, c) ==
    LET control_one == coordinate_pair_to_point(c.control1)
        control_two == coordinate_pair_to_point(c.control2)
        target == resolve_endpoint_absolute(c.point, s.current_point)
    IN [s EXCEPT !.path = Append(ensure_path_started(s),
                                 CurveTo(control_one, control_two, target)),
                 !.current_point = target, !.has_started = TRUE,
                 !.last_cubic_ctrl = SomePoint(control_two), !.last_quad_ctrl = NoPoint]

arm_SmoothQuad(s, c) ==
    LET control == IF s.last_quad_ctrl.some
                   THEN reflect_point(s.last_quad_ctrl.point, s.current_point)
                   ELSE s.current_point
        target == resolve_endpoint_absolute(c.point, s.current_point)
    IN [s EXCEPT !.path = Append(ensure_path_started(s), QuadTo(control, target)),
                 !.current_point = target, !.has_started = TRUE,
                 !.last_quad_ctrl = SomePoint(control), !.last_cubic_ctrl = NoPoint]

arm_SmoothCubic(s, c) ==
    LET control_one == IF s.last_cubic_ctrl.some
                       THEN reflect_point(s.last_cubic_ctrl.point, s.current_point)
                       ELSE s.current_point
        control_two == coordinate_pair_to_point(c.control2)
        target == resolve_endpoint_absolute(c.point, s.current_point)
    IN [s EXCEPT !.path = Append(ensure_path_started(s),
                                 CurveTo(control_one, control_two, target)),
                 !.current_point = target, !.has_started = TRUE,
                 !.last_cubic_ctrl = SomePoint(control_two), !.last_quad_ctrl = NoPoint]

arm_Close_keeps_point(s) ==
    [s EXCEPT !.path = Append(ensure_path_started(s), ClosePath), !.has_started = TRUE,
              !.last_quad_ctrl = NoPoint, !.last_cubic_ctrl = NoPoint]

arm_Close_reopens(s) ==
    [s EXCEPT !.path = Append(ensure_path_started(s), ClosePath), !.has_started = FALSE,
              !.current_point = s.subpath_start,
              !.last_quad_ctrl = NoPoint, !.last_cubic_ctrl = NoPoint]

arm_Close(s) ==
    [s EXCEPT !.path = Append(ensure_path_started(s), ClosePath), !.has_started = TRUE,
              !.current_point = s.subpath_start,
              !.last_quad_ctrl = NoPoint, !.last_cubic_ctrl = NoPoint]

\* one iteration of the loop over the commands
match_cmd(s, c) ==
    CASE c.cmd = "Move" -> arm_Move(s, c)
      [] c.cmd = "Line" -> arm_Line(s, resolve_endpoint_absolute(c.point, s.current_point))
      [] c.cmd = "HLine" -> arm_HLine(s, c)
      [] c.cmd = "VLine" -> arm_VLine(s, c)
      [] c.cmd = "Arc" -> arm_Arc(s, c)
      [] c.cmd = "QuadCurve" -> arm_QuadCurve(s, c)
      [] c.cmd = "CubicCurve" -> arm_CubicCurve(s, c)
      [] c.cmd = "SmoothQuad" -> arm_SmoothQuad(s, c)
      [] c.cmd = "SmoothCubic" -> arm_SmoothCubic(s, c)
      [] c.cmd = "Close" -> arm_Close(s)

\* commands_to_bez_path: the locals when the loop ends; .path is what it returns
RECURSIVE commands_to_bez_path(_)
commands_to_bez_path(cmds) ==
    IF cmds = <<>> THEN BezStart
    ELSE match_cmd(commands_to_bez_path(SubSeq(cmds, 1, Len(cmds) - 1)), cmds[Len(cmds)])

\* ---- shape-margin: the inline style attribute and the first token of a value
\* a text is a sequence of one-character strings
DigitChars == <<"0", "1", "2", "3", "4", "5", "6", "7", "8", "9">>
UpperChars == <<"A", "B", "C", "E", "G", "H", "I", "L", "M", "N", "O", "P", "R", "S", "U", "X">>
LowerChars == <<"a", "b", "c", "e", "g", "h", "i", "l", "m", "n", "o", "p", "r", "s", "u", "x">>
IsDigit(c) == \E i \in DOMAIN DigitChars : DigitChars[i] = c
IsLetter(c) == \E i \in DOMAIN LowerChars : LowerChars[i] = c \/ UpperChars[i] = c
IsWhitespace(c) == c = " "
DigitValue(c) == (CHOOSE i \in DOMAIN DigitChars : DigitChars[i] = c) - 1
to_ascii_lowercase(c) ==
    IF \E i \in DOMAIN UpperChars : UpperChars[i] = c
    THEN LowerChars[CHOOSE i \in DOMAIN UpperChars : UpperChars[i] = c]
    ELSE c
eq_ignore_ascii_case(a, b) ==
    /\ Len(a) = Len(b)
    /\ \A i \in 1..Len(a) : to_ascii_lowercase(a[i]) = to_ascii_lowercase(b[i])

\* the length of the longest prefix of s whose characters all satisfy P
PrefixLen(P(_), s) ==
    LET RECURSIVE L(_)
        L(k) == IF k < Len(s) /\ P(s[k + 1]) THEN L(k + 1) ELSE k
    IN L(0)
Drop(s, k) == SubSeq(s, k + 1, Len(s))
trim(s) ==
    LET lead == PrefixLen(IsWhitespace, s)
        RECURSIVE End(_)
        End(k) == IF k > lead /\ IsWhitespace(s[k]) THEN End(k - 1) ELSE k
    IN SubSeq(s, lead + 1, End(Len(s)))
\* str::split: the pieces between the separators, one more than there are separators
RECURSIVE split(_, _)
split(s, sep) ==
    LET k == PrefixLen(LAMBDA c : c # sep, s)
    IN IF k = Len(s) THEN <<s>> ELSE <<SubSeq(s, 1, k)>> \o split(Drop(s, k + 1), sep)
\* str::splitn(2, sep): the text before the first separator and all the text after it
splitn2(s, sep) ==
    LET k == PrefixLen(LAMBDA c : c # sep, s)
    IN IF k = Len(s) THEN <<s>> ELSE <<SubSeq(s, 1, k), Drop(s, k + 1)>>

\* cssparser's Parser::next on the text: the first token after leading whitespace
EofError == [type |-> "EndOfInput"]
IdentToken == [type |-> "Ident"]
DelimToken == [type |-> "Delim"]
NumberToken(v) == [type |-> "Number", value |-> v]
PercentageToken(v) == [type |-> "Percentage", unit_value |-> v \div 100]
DimensionToken(v, u) == [type |-> "Dimension", value |-> v, unit |-> u]
next_token(text) ==
    LET s == Drop(text, PrefixLen(IsWhitespace, text))
        signed == Len(s) >= 2 /\ s[1] \in {"+", "-"}
        body == IF signed THEN Tail(s) ELSE s
        n == PrefixLen(IsDigit, body)
        RECURSIVE Value(_)
        Value(k) == IF k = 0 THEN 0 ELSE Value(k - 1) * 10 + DigitValue(body[k])
        v == (IF signed /\ s[1] = "-" THEN 0 - Value(n) ELSE Value(n)) * One
        rest == Drop(body, n)
        IsName(c) == IsLetter(c) \/ IsDigit(c) \/ c = "-"
    IN IF s = <<>> THEN EofError
       ELSE IF n > 0
       THEN IF rest # <<>> /\ rest[1] = "%" THEN PercentageToken(v)
            ELSE IF rest # <<>> /\ IsLetter(rest[1])
            THEN DimensionToken(v, SubSeq(rest, 1, PrefixLen(IsName, rest)))
            ELSE NumberToken(v)
       ELSE IF IsLetter(s[1]) \/ (s[1] = "-" /\ Len(s) >= 2 /\ IsLetter(s[2])) THEN IdentToken
       ELSE DelimToken

\* Option<f64>
NoMargin == [some |-> FALSE]
SomeMargin(v) == [some |-> TRUE, value |-> v]
DEFAULT_SHAPE_MARGIN == 0

parse_shape_margin_value_unclamped(raw_value, reference_rect) ==
    LET token == next_token(raw_value)
    IN IF token.type = "Percentage"
       THEN SomeMargin(Mul(width(reference_rect), token.unit_value))
       ELSE IF token.type = "Dimension" /\ eq_ignore_ascii_case(token.unit, <<"p", "x">>)
       THEN SomeMargin(token.value)
       ELSE IF token.type = "Number" THEN SomeMargin(token.value)
       ELSE NoMargin

parse_shape_margin_value(raw_value, reference_rect) ==
    LET token == next_token(raw_value)
    IN IF token.type = "Percentage"
       THEN SomeMargin(Max(Mul(width(reference_rect), token.unit_value), 0))
       ELSE IF token.type = "Dimension" /\ eq_ignore_ascii_case(token.unit, <<"p", "x">>)
       THEN SomeMargin(Max(token.value, 0))
       ELSE IF token.type = "Number" THEN SomeMargin(Max(token.value, 0))
       ELSE NoMargin

\* node.attr("style"): absent, or its text
NoAttr == [present |-> FALSE]
Attr(text) == [present |-> TRUE, text |-> text]

resolve_shape_margin_for_node_takes_last(style_attr, reference_rect) ==
    IF ~style_attr.present THEN DEFAULT_SHAPE_MARGIN
    ELSE LET named(decl) ==
                 LET parts == splitn2(decl, ":")
                 IN Len(parts) = 2 /\ eq_ignore_ascii_case(trim(parts[1]), <<"s", "h", "a", "p", "e", "-", "m", "a", "r", "g", "i", "n">>)
             found == SelectSeq(split(style_attr.text, ";"), named)
         IN IF found = <<>> THEN DEFAULT_SHAPE_MARGIN
            ELSE LET raw_value == trim(splitn2(found[Len(found)], ":")[2])
                     parsed == parse_shape_margin_value(raw_value, reference_rect)
                 IN IF parsed.some THEN parsed.value ELSE DEFAULT_SHAPE_MARGIN

resolve_shape_margin_for_node(style_attr, reference_rect) ==
    IF ~style_attr.present THEN DEFAULT_SHAPE_MARGIN
    ELSE LET named(decl) ==
                 LET parts == splitn2(decl, ":")
                 IN Len(parts) = 2 /\ eq_ignore_ascii_case(trim(parts[1]), <<"s", "h", "a", "p", "e", "-", "m", "a", "r", "g", "i", "n">>)
             found == SelectSeq(split(style_attr.text, ";"), named)
         IN IF found = <<>> THEN DEFAULT_SHAPE_MARGIN
            ELSE LET raw_value == trim(splitn2(Head(found), ":")[2])
                     parsed == parse_shape_margin_value(raw_value, reference_rect)
                 IN IF parsed.some THEN parsed.value ELSE DEFAULT_SHAPE_MARGIN

\* ---- the shape geometry builder
\* BezPath::apply_affine for a scale (sx, sy) followed by a translation (tx, ty)
Affine(sx, sy, tx, ty) == [sx |-> sx, sy |-> sy, tx |-> tx, ty |-> ty]
affine_point(a, p) == Pt(Mul(p.x, a.sx) + a.tx, Mul(p.y, a.sy) + a.ty)
affine_el(a, e) ==
    CASE e.el \in {"MoveTo", "LineTo"} -> [e EXCEPT !.p = affine_point(a, @)]
      [] e.el = "QuadTo" -> [e EXCEPT !.c1 = affine_point(a, @), !.p = affine_point(a, @)]
      [] e.el = "CurveTo" -> [e EXCEPT !.c1 = affine_point(a, @), !.c2 = affine_point(a, @),
                                       !.p = affine_point(a, @)]
      [] e.el = "ArcTo" -> [e EXCEPT !.start = affine_point(a, @), !.p = affine_point(a, @),
                                     !.radii = Pt(Mul(@.x, a.sx), Mul(@.y, a.sy))]
      [] e.el = "ClosePath" -> e
apply_affine_to_path(path, a) == [i \in DOMAIN path |-> affine_el(a, path[i])]

coordinate_pair_to_f32(pair, box_width, box_height) ==
    Pt(resolve_length_percentage_value(pair.x, box_width),
       resolve_length_percentage_value(pair.y, box_height))
convert_command_endpoint(endpoint, box_width, box_height) ==
    [by_to |-> endpoint.by_to,
     x |-> resolve_length_percentage_value(endpoint.x, box_width),
     y |-> resolve_length_percentage_value(endpoint.y, box_height)]
convert_shape_command(c, box_width, box_height) ==
    CASE c.cmd \in {"Move", "Line", "SmoothQuad"} ->
              [c EXCEPT !.point = convert_command_endpoint(@, box_width, box_height)]
      [] c.cmd = "HLine" -> [c EXCEPT !.x = resolve_length_percentage_value(@, box_width)]
      [] c.cmd = "VLine" -> [c EXCEPT !.y = resolve_length_percentage_value(@, box_height)]
      [] c.cmd = "CubicCurve" ->
              [c EXCEPT !.point = convert_command_endpoint(@, box_width, box_height),
                        !.control1 = coordinate_pair_to_f32(@, box_width, box_height),
                        !.control2 = coordinate_pair_to_f32(@, box_width, box_height)]
      [] c.cmd = "QuadCurve" ->
              [c EXCEPT !.point = convert_command_endpoint(@, box_width, box_height),
                        !.control1 = coordinate_pair_to_f32(@, box_width, box_height)]
      [] c.cmd = "SmoothCubic" ->
              [c EXCEPT !.point = convert_command_endpoint(@, box_width, box_height),
                        !.control2 = coordinate_pair_to_f32(@, box_width, box_height)]
      [] c.cmd = "Arc" ->
              [c EXCEPT !.point = convert_command_endpoint(@, box_width, box_height),
                        !.radii = coordinate_pair_to_f32(@, box_width, box_height)]
      [] c.cmd = "Close" -> c
convert_shape_commands_to_absolute(commands, box_width, box_height) ==
    [i \in DOMAIN commands |-> convert_shape_command(commands[i], box_width, box_height)]

\* GenericBasicShape
CircleShape(position, radius) == [variant |-> "Circle", position |-> position, radius |-> radius]
EllipseShape(position, semiaxis_x, semiaxis_y) ==
    [variant |-> "Ellipse", position |-> position, semiaxis_x |-> semiaxis_x,
     semiaxis_y |-> semiaxis_y]
RectShape(rect) == [variant |-> "Rect", rect |-> rect]
PolygonShape(coordinates) == [variant |-> "Polygon", coordinates |-> coordinates]
PathFunction(commands) == [variant |-> "Path", path |-> [commands |-> commands]]
ShapeFunction(commands) == [variant |-> "Shape", shape |-> [commands |-> commands]]
\* the contours CssBox builds for a circle, an ellipse and a polygon
circle_path(frame, center, radius) ==
    [path |-> "circle_path", frame |-> frame, center |-> center, radius |-> radius]
ellipse_path(frame, center, radii) ==
    [path |-> "ellipse_path", frame |-> frame, center |-> center, radii |-> radii]
polygon_path(frame, points) == [path |-> "polygon_path", frame |-> frame, points |-> points]
\* Option<BezPath>
NoPath == [some |-> FALSE]
SomePath(path) == [some |-> TRUE, path |-> path]

circle_shape_to_path_unclamped(frame, circle, reference_rect, shape_margin) ==
    LET center == resolve_shape_position(circle.position, reference_rect)
        radius == resolve_shape_radius(circle.radius, center, reference_rect,
                                       width(reference_rect))
    IN circle_path(frame, center, radius + shape_margin)

circle_shape_to_path(frame, circle, reference_rect, shape_margin) ==
    LET center == resolve_shape_position(circle.position, reference_rect)
        radius == resolve_shape_radius(circle.radius, center, reference_rect,
                                       width(reference_rect))
        total_radius == radius + shape_margin
    IN circle_path(frame, center, Max(total_radius, 0))

ellipse_shape_to_path(frame, ellipse, reference_rect, shape_margin) ==
    LET center == resolve_shape_position(ellipse.position, reference_rect)
        radius_x == resolve_shape_radius(ellipse.semiaxis_x, center, reference_rect,
                                         width(reference_rect)) + shape_margin
        radius_y == resolve_shape_radius(ellipse.semiaxis_y, center, reference_rect,
                                         height(reference_rect)) + shape_margin
    IN ellipse_path(frame, center, Pt(Max(radius_x, 0), Max(radius_y, 0)))

polygon_shape_to_path(frame, polygon, reference_rect, shape_margin) ==
    LET origin_x == origin(reference_rect).x
        origin_y == origin(reference_rect).y
        box_width == width(reference_rect)
        box_height == height(reference_rect)
        bounding_box_center == Pt(origin_x + box_width \div 2, origin_y + box_height \div 2)
        base_point(point) ==
            Pt(origin_x + resolve_length_percentage_value(point.x, box_width),
               origin_y + resolve_length_percentage_value(point.y, box_height))
    IN polygon_path(frame,
                    [i \in DOMAIN polygon.coordinates |->
                        expand_polygon_point(base_point(polygon.coordinates[i]),
                                             bounding_box_center, shape_margin)])

path_function_to_path_unscaled(commands, reference_rect) ==
    apply_affine_to_path(commands_to_bez_path(commands).path,
                         Affine(One, One, origin(reference_rect).x, origin(reference_rect).y))

\* path(): scale to the size of the reference box, then translate to its origin
path_function_to_path(commands, reference_rect) ==
    apply_affine_to_path(commands_to_bez_path(commands).path,
                         Affine(width(reference_rect), height(reference_rect),
                                origin(reference_rect).x, origin(reference_rect).y))

\* shape(): resolve against the reference box, then translate to its origin
shape_function_to_path(commands, reference_rect) ==
    LET cmds == convert_shape_commands_to_absolute(commands, width(reference_rect),
                                                   height(reference_rect))
    IN apply_affine_to_path(commands_to_bez_path(cmds).path,
                            Affine(One, One, origin(reference_rect).x, origin(reference_rect).y))

shape_to_path_rejects_empty(frame, shape, reference_rect, shape_margin) ==
    CASE shape.variant = "Circle" ->
              SomePath(circle_shape_to_path(frame, shape, reference_rect, shape_margin))
      [] shape.variant = "Ellipse" ->
              SomePath(ellipse_shape_to_path(frame, shape, reference_rect, shape_margin))
      [] shape.variant = "Rect" ->
              SomePath(rect_shape_to_path(frame, shape.rect, reference_rect, shape_margin))
      [] shape.variant = "Polygon" ->
              IF shape.coordinates = <<>> THEN NoPath
              ELSE SomePath(polygon_shape_to_path(frame, shape, reference_rect, shape_margin))
      [] shape.variant = "Path" ->
              SomePath(path_function_to_path(shape.path.commands, reference_rect))
      [] shape.variant = "Shape" ->
              SomePath(shape_function_to_path(shape.shape.commands, reference_rect))

\* basic_shape_to_path(frame, shape, reference_rect, shape_margin), the contour itself
shape_to_path(frame, shape, reference_rect, shape_margin) ==
    CASE shape.variant = "Circle" ->
              SomePath(circle_shape_to_path(frame, shape, reference_rect, shape_margin))
      [] shape.variant = "Ellipse" ->
              SomePath(ellipse_shape_to_path(frame, shape, reference_rect, shape_margin))
      [] shape.variant = "Rect" ->
              SomePath(rect_shape_to_path(frame, shape.rect, reference_rect, shape_margin))
      [] shape.variant = "Polygon" ->
              SomePath(polygon_shape_to_path(frame, shape, reference_rect, shape_margin))
      [] shape.variant = "Path" -> 
              SomePath(path_function_to_path(shape.path.commands, reference_rect))
      [] shape.variant = "Shape" -> 
              SomePath(shape_function_to_path(shape.shape.commands, reference_rect))

\* clip_path_from_styles_inner for GenericClipPath::Shape(basic_shape, geometry_box):
\* the shape-margin is resolved before the match, against frame.border_box
clip_path_from_styles_inner_shape(frame, style_attr, basic_shape, geometry_box) ==
    LET shape_margin == resolve_shape_margin_for_node(style_attr, frame.border_box)
        reference_rect == reference_rect_for_geometry_box(frame, geometry_box)
    IN shape_to_path(frame, basic_shape, reference_rect, shape_margin)

\* ---------------------------------------------------------------- values
\* Option<Rc<BezPath>>::None
None == [some |-> FALSE, rc |-> 0, kind |-> "none", node |-> 0, len |-> 0]
NoResult == [node |-> 0, path |-> None]
NoReturn == [node |-> 0, value |-> None, how |-> "none"]
\* no shape-geometry function is under call; a call that has not returned
NoCall == [fn |-> "none"]
\* no document is loaded; no event has been handled
NoDocument == [nodes |-> <<>>]
NoEvent == [fn |-> "none"]
Pending == [tag |-> "pending"]
Ret(v) == [tag |-> "returned", value |-> v]
\* viewport_scroll().y, whether paint_scene finds a canvas background colour, and
\* whether devtools.highlight_hover is set with a hovered node
DefaultView == [scroll_y |-> 0, background |-> FALSE, highlight_hover |-> FALSE]
ScrolledView == [scroll_y |-> 10, background |-> TRUE, highlight_hover |-> TRUE]
\* a contour left in Node::cached_clip_path by the paint pass of an earlier frame
Stale(n) == [some |-> TRUE, rc |-> -1, kind |-> "stale", node |-> n, len |-> 1]

ClipNone == [tag |-> "None", fragment |-> 0]
ClipBox == [tag |-> "Box", fragment |-> 0]
\* GenericClipPath::Shape(basic_shape, geometry_box) of an element for which
\* resolve_shape_margin_for_node returns shape_margin
ClipShapeOf(basic_shape, geometry_box, shape_margin) ==
    [tag |-> "Shape", fragment |-> 0, basic_shape |-> basic_shape,
     geometry_box |-> geometry_box, shape_margin |-> shape_margin]
ClipShape ==
    ClipShapeOf(CircleShape(Auto, RadiusLength(Length(One))), ElementDependent,
                DEFAULT_SHAPE_MARGIN)
ClipUrl(f) == [tag |-> "Url", fragment |-> f]
ClipPathValues == {ClipNone, ClipBox, ClipShape} \cup {ClipUrl(f) : f \in Fragments}

\* layout.size.width of an element, in layout units
LayoutWidth(n) == 10 * n

\* stale: Node::cached_clip_path still holds the contour of an earlier frame when
\* the painter is constructed
DefaultNode(n) ==
    [has_style |-> TRUE, clip_path |-> ClipNone, width |-> LayoutWidth(n), stale |-> FALSE,
     \* node.data, node.style.display, local name and type attribute
     data |-> "Element", display |-> "Block", local_name |-> "div", type_attr |-> "",
     \* computed visibility, opacity (percent), overflow, image data of the element
     visibility |-> "Visible", opacity |-> 100,
     overflow_x |-> "Visible", overflow_y |-> "Visible", image |-> "none",
     \* final_layout: location.y, size.height, content_size.height, and the size
     \* less padding and border in each axis; scroll_offset.y
     y |-> 0, height |-> 10, content_height |-> 10, inner_w |-> 10, inner_h |-> 10,
     scroll_y |-> 0,
     \* position.y of the element in the stacking context that hoists it
     hoisted_y |-> 0,
     \* flags.is_inline_root(), element.inline_layout_data.is_some(), and the text
     \* input data of the element: "none", or whether its editor's layout is built
     inline_root |-> FALSE, inline_layout_data |-> FALSE, text_input |-> "none",
     \* stacking_context hoisted children and paint_children, in stored order
     neg_z |-> <<>>, paint_children |-> <<>>, pos_z |-> <<>>]

\* ---------------------------------------------------------------- helpers
get_element_by_id(fragment) == IF fragment \in Nodes THEN fragment ELSE 0

\* create_css_rect(styles, layout, s).border_box.width()
create_css_rect(n, s) == tree[n].width * s

\* Rc::new(clip_path_for_geometry_box(frame, geometry_box)); gen numbers the
\* allocations made for the element, so that <<node, rc>> identifies the Rc
clip_path_for_geometry_box(n, gen) ==
    [some |-> TRUE, rc |-> gen, kind |-> "box", node |-> n, len |-> create_css_rect(n, 1)]

\* create_css_rect(styles, &node.final_layout, 1.0): the boxes of the element; the
\* layout has a border, no padding and no margin
canonical_frame(n) ==
    LET w == tree[n].width * One
        h == tree[n].height * One
        dx == ((tree[n].width - tree[n].inner_w) * One) \div 2
        dy == ((tree[n].height - tree[n].inner_h) * One) \div 2
    IN CssBox(Rect(0, 0, w, h), Rect(dx, dy, w - dx, h - dy), Rect(dx, dy, w - dx, h - dy),
              Rect(0, 0, w, h))

\* basic_shape_to_path(frame, shape, reference_rect, margin).map(Rc::new)
basic_shape_to_path(n, gen) ==
    LET cp == tree[n].clip_path
        reference_rect == reference_rect_for_geometry_box(canonical_frame(n), cp.geometry_box)
        path == shape_to_path(canonical_frame(n), cp.basic_shape, reference_rect,
                              cp.shape_margin)
    IN IF path.some
       THEN [some |-> TRUE, rc |-> gen, kind |-> "shape", node |-> n,
             len |-> create_css_rect(n, 1)]
       ELSE None

\* (*path).clone() ; apply_affine(Affine::scale(s)) ; Rc::new(scaled): a fresh,
\* unshared allocation (rc 0)
apply_affine(path, s) == [path EXCEPT !.rc = 0, !.len = @ * s]

scale_result_skipped(path, s) == path

\* the closure of clip_path_from_styles: scale unless the factor is 1
scale_result(path, s) ==
    IF ~path.some THEN None
    ELSE IF s = 1 THEN path
    ELSE apply_affine(path, s)

set_cached_clip_path_keeps(old, path) == IF path.some THEN path ELSE old

set_cached_clip_path_clears(old, path) == None

\* the back-reference written on the success and failure exits
set_cached_clip_path(old, path) == path

visited_insert_forgets(vis, n) == vis

\* visited.insert(node_id)
visited_insert(vis, n) == vis \cup {n}

visited_remove_skipped(vis, n) == vis

\* visited.remove(&node_id)
visited_remove(vis, n) == vis \ {n}

cache_get_misses(cache, n) == None

cache_get_any_key(cache, n) ==
    IF \E m \in Nodes : cache[m].some
    THEN cache[CHOOSE m \in Nodes : cache[m].some]
    ELSE None

\* self.clip_path_cache.borrow().get(&node_id)
cache_get(cache, n) == cache[n]

cache_insert_evicts(cache, n, path) == [m \in Nodes |-> IF m = n THEN path ELSE None]

cache_insert_skipped(cache, n, path) == cache

\* self.clip_path_cache.borrow_mut().insert(node_id, path.clone())
cache_insert(cache, n, path) == [cache EXCEPT ![n] = path]

clip_path_from_url_unguarded(fragment, vis) ==
    LET referenced_id == get_element_by_id(fragment) IN
    IF referenced_id = 0 THEN 0
    ELSE IF ~tree[referenced_id].has_style THEN 0
    ELSE referenced_id

\* clip_path_from_url: the element to recurse into, or 0 for an early None
clip_path_from_url(fragment, vis) ==
    LET referenced_id == get_element_by_id(fragment) IN
    IF referenced_id = 0 THEN 0
    ELSE IF referenced_id \in vis THEN 0
    ELSE IF ~tree[referenced_id].has_style THEN 0
    ELSE referenced_id

Frame(n) == [node |-> n, pc |-> "enter", path |-> None]
Top == stack[Len(stack)]
Pop == SubSeq(stack, 1, Len(stack) - 1)
MaxDepth == MaxNodes + 1

\* clip_path_from_styles_inner returns v for element n: to clip_path_from_url of the
\* calling activation, or to clip_path_from_styles, whose closure scales the contour
ReturnInner(n, v, how) ==
    /\ last_ret' = [node |-> n, value |-> v, how |-> how]
    /\ IF Len(stack) = 1
       THEN /\ stack' = <<>>
            /\ result' = [node |-> call, path |-> scale_result(v, scale)]
            /\ call' = 0
       ELSE /\ stack' = [Pop EXCEPT ![Len(stack) - 1] = [@ EXCEPT !.pc = "exit", !.path = v]]
            /\ UNCHANGED <<result, call>>

\* ---------------------------------------------------------------- actions
\* clip_path_from_styles, up to the call of clip_path_from_styles_inner
StartClip(n) ==
    /\ call = 0
    /\ tree[n].has_style
    /\ \A m \in Nodes : calls[m] < MaxCalls
    /\ call' = n
    /\ visited' = {}
    /\ stack' = <<Frame(n)>>
    /\ result' = NoResult
    /\ last_ret' = NoReturn

clip_path_from_styles ==
    /\ \E n \in Nodes : StartClip(n)
    /\ UNCHANGED <<doc, handled, shape_call, shape_ret, tree, scale, clip_path_cache, cached_clip_path, calls>>
    /\ UNCHANGED paint_vars

\* clip_path_from_styles_inner from entry to the end of the dispatch
clip_path_from_styles_inner ==
    /\ stack # <<>>
    /\ Len(stack) <= MaxDepth
    /\ Top.pc = "enter"
    /\ LET n == Top.node
           cp == tree[n].clip_path
           target == clip_path_from_url(cp.fragment, visited_insert(visited, n))
           SetTop(path) == [stack EXCEPT ![Len(stack)] = [@ EXCEPT !.pc = "exit", !.path = path]]
       IN
       IF cache_get(clip_path_cache, n).some
       THEN /\ cached_clip_path' = [cached_clip_path EXCEPT ![n] = cache_get(clip_path_cache, n)]
            /\ ReturnInner(n, cache_get(clip_path_cache, n), "hit")
            /\ UNCHANGED <<visited, calls>>
       ELSE IF n \in visited
       THEN /\ ReturnInner(n, None, "visited")
            /\ UNCHANGED <<visited, cached_clip_path, calls>>
       ELSE /\ visited' = visited_insert(visited, n)
            /\ UNCHANGED <<cached_clip_path, call, result, last_ret>>
            /\ CASE cp.tag = "None" ->
                      /\ stack' = SetTop(None)
                      /\ UNCHANGED calls
                 [] cp.tag = "Box" ->
                      /\ stack' = SetTop(clip_path_for_geometry_box(n, calls[n] + 1))
                      /\ calls' = [calls EXCEPT ![n] = @ + 1]
                 [] cp.tag = "Shape" ->
                      /\ stack' = SetTop(basic_shape_to_path(n, calls[n] + 1))
                      /\ calls' = [calls EXCEPT ![n] = @ + 1]
                 [] cp.tag = "Url" ->
                      /\ IF target = 0
                         THEN stack' = SetTop(None)
                         ELSE stack' = Append([stack EXCEPT ![Len(stack)] = [@ EXCEPT !.pc = "url"]],
                                              Frame(target))
                      /\ UNCHANGED calls
    /\ UNCHANGED <<doc, handled, shape_call, shape_ret, tree, scale, clip_path_cache>>
    /\ UNCHANGED paint_vars

\* clip_path_from_styles_inner from visited.remove to its return
clip_path_from_styles_inner_exit ==
    /\ stack # <<>>
    /\ Top.pc = "exit"
    /\ LET n == Top.node
           path == Top.path
       IN
       /\ visited' = visited_remove(visited, n)
       /\ cached_clip_path' = [cached_clip_path EXCEPT ![n] = set_cached_clip_path(@, path)]
       /\ clip_path_cache' = IF path.some THEN cache_insert(clip_path_cache, n, path)
                             ELSE clip_path_cache
       /\ ReturnInner(n, path, IF path.some THEN "success" ELSE "failure")
    /\ UNCHANGED <<doc, handled, shape_call, shape_ret, tree, scale, calls>>
    /\ UNCHANGED paint_vars

\* ---------------------------------------------------------------- specification
\* a fresh BlitzDomPainter: empty cache; one node may be unstyled, one may still
\* carry the back-reference of an earlier frame
InitResolver ==
    /\ clip_path_cache = [n \in Nodes |-> None]
    /\ visited = {}
    /\ stack = <<>>
    /\ call = 0
    /\ result = NoResult
    /\ last_ret = NoReturn
    /\ calls = [n \in Nodes |-> 0]
    /\ cached_clip_path = [n \in Nodes |-> IF tree[n].stale THEN Stale(n) ELSE None]

InitPaint ==
    /\ painting = "idle"
    /\ pstack = <<>>
    /\ trace = <<>>
    /\ shape_call = NoCall
    /\ shape_ret = Pending
    /\ doc = NoDocument
    /\ handled = NoEvent

Init ==
    /\ scale \in Scales
    /\ view = DefaultView
    \* every url() graph over the elements; the last element may be the odd one:
    \* unstyled, or still carrying the back-reference of an earlier frame
    /\ \E cps \in [Nodes -> ClipPathValues], odd \in {0, MaxNodes}, stale \in BOOLEAN :
          /\ tree = [n \in Nodes |-> IF n = odd /\ ~stale
                                     THEN [DefaultNode(n) EXCEPT !.has_style = FALSE]
                                     ELSE [DefaultNode(n) EXCEPT !.clip_path = cps[n],
                                                                 !.stale = (n = odd)]]
    /\ InitResolver
    /\ InitPaint

Next ==
    \/ clip_path_from_styles
    \/ clip_path_from_styles_inner
    \/ clip_path_from_styles_inner_exit

Spec == Init /\ [][Next]_vars

\* every url() graph over the elements at scale 1, the last element styled or not
InitGraph ==
    /\ scale = 1
    /\ view = DefaultView
    /\ \E cps \in [Nodes -> ClipPathValues], styled \in BOOLEAN :
          tree = [n \in Nodes |-> IF n = MaxNodes /\ ~styled
                                  THEN [DefaultNode(n) EXCEPT !.has_style = FALSE]
                                  ELSE [DefaultNode(n) EXCEPT !.clip_path = cps[n]]]
    /\ InitResolver
    /\ InitPaint

\* a call of clip_path_from_styles_inner in progress runs on: it is straight-line code
FairSpec ==
    /\ InitGraph
    /\ [][Next]_vars
    /\ WF_vars(clip_path_from_styles_inner)
    /\ WF_vars(clip_path_from_styles_inner_exit)

\* ---------------------------------------------------------------- the paint walker
render_element_skips_undisplayed_only(n, box_y) ==
    tree[n].display = "None" \/ ~tree[n].has_style

\* the early returns of render_element, for an element whose box is at box_y
render_element_skips(n, box_y) ==
    LET node == tree[n]
        scaled_y == box_y * scale
        scaled_content_height ==
            (IF node.content_height > node.height THEN node.content_height ELSE node.height) * scale
    IN
    \/ node.display = "None"
    \/ ~node.has_style
    \/ (node.local_name = "input" /\ node.type_attr = "hidden")
    \/ node.visibility # "Visible"
    \/ node.opacity = 0
    \/ scaled_y > ViewportHeight
    \/ scaled_y + scaled_content_height < 0

\* node.element_data().and_then(|e| e.raster_image_data()).is_some()
is_image(n) == tree[n].image = "raster"

should_clip(n) ==
    \/ is_image(n)
    \/ tree[n].overflow_x # "Visible"
    \/ tree[n].overflow_y # "Visible"

has_opacity(n) == tree[n].opacity < 100

\* content_box_size.width * content_box_size.height < 0.01, in whole layout units
clip_area_is_zero(n) == (tree[n].inner_w * scale) * (tree[n].inner_h * scale) <= 0

wants_layer_ignores_opacity(n, clip_path) == should_clip(n) \/ clip_path.some

wants_layer(n, clip_path) == should_clip(n) \/ has_opacity(n) \/ clip_path.some

\* draw_border: one draw_border_edge per edge
draw_border == <<"draw_border_edge_top", "draw_border_edge_right",
                 "draw_border_edge_bottom", "draw_border_edge_left">>

render_element_draws_content_first ==
    <<"apply_scroll_offset", "draw_image", "draw_svg", "draw_canvas", "draw_input",
      "draw_text_input_text", "draw_inline_layout", "draw_marker",
      "draw_outline", "draw_outset_box_shadow", "draw_background">>
    \o draw_border
    \o <<"draw_inset_box_shadow", "stroke_devtools">>

\* the sub-draws of the closure of render_element, before draw_children
render_element_draws ==
    <<"draw_outline", "draw_outset_box_shadow", "draw_background">>
    \o draw_border
    \o <<"draw_inset_box_shadow", "stroke_devtools", "apply_scroll_offset",
         "draw_image", "draw_svg", "draw_canvas", "draw_input",
         "draw_text_input_text", "draw_inline_layout", "draw_marker">>

draw_children_in_tree_order(n) == tree[n].paint_children \o tree[n].neg_z \o tree[n].pos_z

\* the render_node calls of draw_children, in order
draw_children(n) == tree[n].neg_z \o tree[n].paint_children \o tree[n].pos_z

Call(n, op) == [node |-> n, op |-> op]
PFrame(n, loc) == [node |-> n, pc |-> "enter", loc |-> loc, pos |-> 0, kids |-> <<>>,
                   layer |-> FALSE]
PTop == pstack[Len(pstack)]
PPop == SubSeq(pstack, 1, Len(pstack) - 1)
SetPTop(f) == [pstack EXCEPT ![Len(pstack)] = f]

\* maybe_with_layer: the layer is pushed before the closure runs ...
maybe_with_layer_push(n, layer, clip) ==
    IF layer THEN <<[node |-> n, op |-> "push_layer", clip |-> clip]>> ELSE <<>>

maybe_with_layer_pop_forgotten(n, layer) == <<>>

\* ... and popped when the closure has returned
maybe_with_layer_pop(n, layer) == IF layer THEN <<Call(n, "pop_layer")>> ELSE <<>>

\* render_element returns to draw_children of its caller, or to paint_scene
\* (tr: the trace at the return); paint_scene ends with the debug overlay
ReturnRender(tr) ==
    /\ pstack' = PPop
    /\ painting' = IF Len(pstack) = 1 THEN "done" ELSE painting
    /\ trace' = IF Len(pstack) = 1 /\ view.highlight_hover
                THEN Append(tr, Call(0, "render_debug_overlay"))
                ELSE tr

\* paint_scene: reset the scene, fill the canvas background and render the root
\* element at the negated viewport scroll
paint_scene ==
    /\ painting = "idle"
    /\ painting' = "walk"
    /\ trace' = <<Call(0, "reset")>>
                 \o (IF view.background THEN <<Call(0, "fill")>> ELSE <<>>)
    /\ pstack' = <<PFrame(1, 0 - view.scroll_y)>>
    /\ UNCHANGED <<doc, handled, shape_call, shape_ret, tree, scale, view>>
    /\ UNCHANGED resolver_vars

\* node.element_data().is_some(): elements and anonymous blocks carry element data
has_element_data(n) == tree[n].data \in {"Element", "AnonymousBlock"}

\* render_element up to its call of clip_path_from_styles; element_cx unwraps the
\* element data of the node
render_element ==
    /\ pstack # <<>>
    /\ PTop.pc = "enter"
    /\ LET n == PTop.node
           box_y == PTop.loc + tree[n].y
       IN
       IF render_element_skips(n, box_y) \/ (should_clip(n) /\ clip_area_is_zero(n))
       THEN /\ ReturnRender(trace)
            /\ UNCHANGED resolver_vars
       ELSE IF ~has_element_data(n)
       THEN /\ trace' = Append(trace, Call(n, "panic"))
            /\ pstack' = <<>>
            /\ painting' = "panicked"
            /\ UNCHANGED resolver_vars
       ELSE /\ StartClip(n)
            /\ pstack' = SetPTop([PTop EXCEPT !.pc = "clip", !.pos = box_y])
            /\ UNCHANGED <<painting, trace, clip_path_cache, cached_clip_path, calls>>
    /\ UNCHANGED <<doc, handled, shape_call, shape_ret, tree, scale, view>>

\* cx.frame.padding_box_path(): the padding box of the frame element_cx builds with
\* create_css_rect(style, layout, self.scale)
fallback_clip_shape(n) ==
    [some |-> TRUE, rc |-> 0, kind |-> "padding_box", node |-> n,
     len |-> tree[n].inner_w * scale]

clip_shape_always_padding_box(n, clip_path) == fallback_clip_shape(n)

\* the clip_shape render_element hands to maybe_with_layer
clip_shape(n, clip_path) ==
    IF clip_path.some THEN clip_path ELSE fallback_clip_shape(n)

\* the sub-draw of the closure that panics for n, "" when none does:
\* draw_text_input_text unwraps editor.try_layout(), draw_inline_layout panics for
\* an inline root without inline layout data
panics_at(n) ==
    IF tree[n].text_input = "dirty" THEN "draw_text_input_text"
    ELSE IF tree[n].inline_root /\ ~tree[n].inline_layout_data THEN "draw_inline_layout"
    ELSE ""

\* the sub-draws up to and including op
UpTo(draws, op) ==
    SubSeq(draws, 1, CHOOSE i \in DOMAIN draws : draws[i] = op)

\* render_element from the result of clip_path_from_styles to draw_children:
\* maybe_with_layer pushes the layer, the closure issues the sub-draws; a panic in
\* a sub-draw unwinds the whole pass
render_element_draw ==
    /\ pstack # <<>>
    /\ PTop.pc = "clip"
    /\ call = 0
    /\ LET n == PTop.node
           layer == wants_layer(n, result.path)
           panic == panics_at(n)
           draws == IF panic = "" THEN render_element_draws \o <<"draw_children">>
                    ELSE UpTo(render_element_draws, panic) \o <<"panic">>
       IN
       /\ trace' = trace
                   \o maybe_with_layer_push(n, layer, clip_shape(n, result.path))
                   \o [i \in 1..Len(draws) |-> Call(n, draws[i])]
       /\ pstack' = IF panic = ""
                    THEN SetPTop([PTop EXCEPT !.pc = "children", !.layer = layer,
                                              !.pos = @ - tree[n].scroll_y,
                                              !.kids = draw_children(n)])
                    ELSE <<>>
       /\ painting' = IF panic = "" THEN painting ELSE "panicked"
    /\ UNCHANGED <<doc, handled, shape_call, shape_ret, tree, scale, view>>
    /\ UNCHANGED resolver_vars

\* one iteration of the loops of draw_children: render_node of the next child
render_node ==
    /\ pstack # <<>>
    /\ PTop.pc = "children"
    /\ PTop.kids # <<>>
    /\ LET child == Head(PTop.kids)
           rest == SetPTop([PTop EXCEPT !.kids = Tail(@)])
       IN
       /\ trace' = Append(trace, Call(child, "render_node"))
       /\ pstack' = IF has_element_data(child)
                    THEN Append(rest, PFrame(child, PTop.pos + tree[child].hoisted_y))
                    ELSE rest
    /\ UNCHANGED <<doc, handled, shape_call, shape_ret, tree, scale, view, painting>>
    /\ UNCHANGED resolver_vars

\* the end of maybe_with_layer and of render_element
render_element_return ==
    /\ pstack # <<>>
    /\ PTop.pc = "children"
    /\ PTop.kids = <<>>
    /\ ReturnRender(trace \o maybe_with_layer_pop(PTop.node, PTop.layer))
    /\ UNCHANGED <<doc, handled, shape_call, shape_ret, tree, scale, view>>
    /\ UNCHANGED resolver_vars

\* ---- the documents painted
\* a tree over Nodes with root 1: par[n] < n is the parent of n > 1, grp[n] the list
\* of the parent that holds n, rev whether the lists are stored in descending id order
Ordered(S, rev) ==
    LET RECURSIVE Asc(_)
        Asc(T) == IF T = {} THEN <<>>
                  ELSE LET m == CHOOSE x \in T : \A z \in T : x <= z
                       IN <<m>> \o Asc(T \ {m})
        RECURSIVE Desc(_)
        Desc(T) == IF T = {} THEN <<>>
                   ELSE LET m == CHOOSE x \in T : \A z \in T : x >= z
                        IN <<m>> \o Desc(T \ {m})
    IN IF rev THEN Desc(S) ELSE Asc(S)

Kids(par, grp, n, g) == {c \in Nodes : c > 1 /\ par[c] = n /\ grp[c] = g}

HoistedY == 5
Structured(par, grp, rev, nodes) ==
    [n \in Nodes |-> [nodes[n] EXCEPT
        !.hoisted_y = IF n > 1 /\ grp[n] # "normal" THEN HoistedY ELSE 0,
        !.neg_z = Ordered(Kids(par, grp, n, "neg"), rev),
        !.paint_children = Ordered(Kids(par, grp, n, "normal"), rev),
        !.pos_z = Ordered(Kids(par, grp, n, "pos"), rev)]]

Parents == {par \in [Nodes -> 0..MaxNodes] : \A n \in Nodes : par[n] < n /\ (n > 1 => par[n] >= 1)}
Groups == [Nodes -> {"neg", "normal", "pos"}]
Chain == [n \in Nodes |-> n - 1]
AllNormal == [n \in Nodes |-> "normal"]

\* what one element of a structural document is: drawn plainly, drawn in a layer,
\* or skipped
PlainProfile(n, k) ==
    CASE k = 1 -> DefaultNode(n)
      [] k = 2 -> [DefaultNode(n) EXCEPT !.opacity = 50]
      [] k = 3 -> [DefaultNode(n) EXCEPT !.display = "None"]

\* the elements render_element returns early for, and their neighbours
SkipProfiles(n) ==
    { [DefaultNode(n) EXCEPT !.display = "None"],
      [DefaultNode(n) EXCEPT !.has_style = FALSE],
      [DefaultNode(n) EXCEPT !.data = "Text"],
      [DefaultNode(n) EXCEPT !.local_name = "input", !.type_attr = "hidden"],
      [DefaultNode(n) EXCEPT !.local_name = "input", !.type_attr = "text"],
      [DefaultNode(n) EXCEPT !.visibility = "Hidden"],
      [DefaultNode(n) EXCEPT !.visibility = "Collapse"],
      [DefaultNode(n) EXCEPT !.opacity = 0] }
    \cup { [DefaultNode(n) EXCEPT !.y = y, !.content_height = h] :
              y \in {0 - 21, 0 - 20, 0 - 11, 0 - 10, ViewportHeight \div MaxScale,
                     ViewportHeight \div MaxScale + 1, ViewportHeight, ViewportHeight + 1},
              h \in {10, 20} }

\* the elements that are drawn, with every combination of what asks for a layer
DrawProfiles(n) ==
    { [DefaultNode(n) EXCEPT !.opacity = o, !.overflow_x = ov[1], !.overflow_y = ov[2],
                             !.image = im, !.clip_path = cp, !.inner_w = w] :
         o \in {50, 100},
         ov \in {<<"Visible", "Visible">>, <<"Hidden", "Visible">>, <<"Visible", "Scroll">>},
         im \in {"none", "raster", "svg"},
         cp \in {ClipNone, ClipBox, ClipShape, ClipUrl(0), ClipUrl(MaxNodes)},
         w \in {0, 10} }

\* every tree shape at scale 1, up to two of its elements layered or hidden
StructuralDocument ==
    \E par \in Parents, grp \in Groups, rev \in BOOLEAN, pf \in [Nodes -> 1..3] :
        /\ grp[1] = "normal" /\ pf[1] # 3
        /\ Cardinality({n \in Nodes : pf[n] # 1}) <= 2
        /\ scale = 1
        /\ view = DefaultView
        /\ tree = Structured(par, grp, rev, [n \in Nodes |-> PlainProfile(n, pf[n])])

\* a chain 1 - 2 - ... whose first or second element takes every profile; the last
\* element is what a url() of the subject refers to
ProfiledDocument ==
    \E subject \in {1, 2}, prof \in SkipProfiles(2) \cup DrawProfiles(2),
       cp \in {ClipNone, ClipShape}, sc \in {0, 10} :
        /\ scale \in Scales
        /\ view \in (IF sc = 0 THEN {DefaultView, ScrolledView} ELSE {DefaultView})
        /\ tree = Structured(Chain, AllNormal, FALSE,
                 [n \in Nodes |-> IF n = subject THEN [prof EXCEPT !.width = LayoutWidth(n)]
                                  ELSE IF n = MaxNodes THEN [DefaultNode(n) EXCEPT !.clip_path = cp]
                                  ELSE IF n = 1 THEN [DefaultNode(n) EXCEPT !.scroll_y = sc]
                                  ELSE DefaultNode(n)])

InitDocument ==
    /\ (StructuralDocument \/ ProfiledDocument)
    /\ InitResolver
    /\ InitPaint

NextPaint ==
    \/ paint_scene
    \/ render_element
    \/ clip_path_from_styles_inner
    \/ clip_path_from_styles_inner_exit
    \/ render_element_draw
    \/ render_node
    \/ render_element_return

SpecPaint == InitDocument /\ [][NextPaint]_vars

\* what an element holds for draw_text_input_text and draw_inline_layout, and the
\* nodes render_node is handed that are no elements
ContentProfiles(n) ==
    { [DefaultNode(n) EXCEPT !.inline_root = ir, !.inline_layout_data = ild] :
         ir \in BOOLEAN, ild \in BOOLEAN }
    \cup { [DefaultNode(n) EXCEPT !.local_name = "input", !.type_attr = "text",
                                  !.text_input = ti] : ti \in {"laid_out", "dirty"} }
    \cup { [DefaultNode(n) EXCEPT !.data = d] : d \in {"Text", "Comment", "Document"} }

\* a chain 1 - 2 - ... whose second or third element takes every content profile;
\* the elements above it are drawn, in a layer or not
ContentDocument ==
    \E subject \in {2, MaxNodes}, prof \in ContentProfiles(1),
       cp \in {ClipNone, ClipShape, ClipUrl(MaxNodes)}, o \in {50, 100} :
        /\ scale \in Scales
        /\ view \in {DefaultView, ScrolledView}
        /\ tree = Structured(Chain, AllNormal, FALSE,
                 [n \in Nodes |-> IF n = subject THEN [prof EXCEPT !.width = LayoutWidth(n)]
                                  ELSE [DefaultNode(n) EXCEPT !.clip_path = cp,
                                                              !.opacity = o]])

InitContent ==
    /\ ContentDocument
    /\ InitResolver
    /\ InitPaint

SpecContent == InitContent /\ [][NextPaint]_vars

\* ---- documents whose elements are clipped by basic shapes
\* basic shapes of every variant, ordinary and degenerate: a zero radius, a center
\* outside the box, edges inset past each other, no vertex, no command
ZeroRound == [top_left |-> Length(0), top_right |-> Length(0), bottom_right |-> Length(0),
              bottom_left |-> Length(0)]
DocumentShapes ==
    {CircleShape(Auto, ClosestSide),
     CircleShape(Auto, RadiusLength(Length(0))),
     CircleShape(Position(Length(0 - 2 * One), Percentage(One \div 2)), ClosestSide),
     EllipseShape(Auto, RadiusLength(Length(0)), FarthestSide),
     EllipseShape(Auto, RadiusLength(Length(0 - One)), RadiusLength(Length(0 - One))),
     RectShape(InsetRect(Length(0), Length(0), Length(0), Length(0), ZeroRound)),
     RectShape(InsetRect(Percentage((6 * One) \div 10), Percentage((6 * One) \div 10),
                         Percentage((6 * One) \div 10), Percentage((6 * One) \div 10),
                         ZeroRound)),
     PolygonShape(<<>>),
     PolygonShape(<<Pt(Length(0), Length(0))>>),
     PolygonShape(<<Pt(Length(0), Length(0)), Pt(Percentage(One), Length(0)),
                    Pt(Percentage(One \div 2), Percentage(One))>>),
     PathFunction(<<>>),
     PathFunction(<<CloseCmd>>),
     PathFunction(<<MoveCmd(ToPosition(0, 0)), LineCmd(ToPosition(One, One)), CloseCmd>>),
     ShapeFunction(<<>>),
     ShapeFunction(<<LineCmd(ByCoordinate(Percentage(One), Length(One)))>>)}

\* a chain 1 - 2 - ... whose first or second element is clipped by a basic shape and
\* has a laid-out size or none; the other elements are unclipped or refer to it
ClipDocument ==
    \E subject \in {1, 2}, shape \in DocumentShapes,
       box \in {ElementDependent, ShapeBox("ContentBox")}, margin \in {0, One},
       size \in {0, 10}, other \in {ClipNone, ClipUrl(1), ClipUrl(2)} :
        /\ other.fragment \in {0, subject}
        /\ scale \in Scales
        /\ view = DefaultView
        /\ tree = Structured(Chain, AllNormal, FALSE,
                 [n \in Nodes |->
                    IF n = subject
                    THEN [DefaultNode(n) EXCEPT !.clip_path = ClipShapeOf(shape, box, margin),
                                                !.width = 2 * size, !.height = size,
                                                !.content_height = size,
                                                !.inner_w = size, !.inner_h = size]
                    ELSE [DefaultNode(n) EXCEPT !.clip_path = other]])

InitClip ==
    /\ ClipDocument
    /\ InitResolver
    /\ InitPaint

SpecClip == InitClip /\ [][NextPaint]_vars

\* ---- the border of an element
Edges == {"Top", "Right", "Bottom", "Left"}
BorderStyles == {"None", "Hidden", "Dotted", "Dashed", "Solid", "Double", "Groove", "Ridge",
                 "Inset", "Outset"}
\* a border colour: an absolute colour with its alpha, or currentcolor
AbsoluteColor(alpha) == [tag |-> "Absolute", alpha |-> alpha]
CurrentColor == [tag |-> "CurrentColor"]
\* Color::resolve_to_absolute(&current_color).as_srgb_color()
resolve_to_absolute(color, current_color) ==
    IF color.tag = "CurrentColor" THEN current_color ELSE color
\* CssBox::border_edge_shape(edge), the contour standing for itself
border_edge_shape(edge) == [path |-> "border_edge_shape", edge |-> edge]
\* the scene commands
StrokeCommand(stroke, color, path) ==
    [cmd |-> "stroke", stroke |-> stroke, transform |-> "self.transform", color |-> color,
     path |-> path]
FillCommand(color, path) ==
    [cmd |-> "fill", style |-> "NonZero", transform |-> "self.transform", color |-> color,
     path |-> path]

draw_border_edge_dots_unclamped(cx, edge) ==
    LET path == border_edge_shape(edge)
        color == resolve_to_absolute(cx.border[edge].color, cx.color)
        border_style == cx.border[edge].style
        border_width == cx.border_width[edge]
        dash == IF border_style = "Dotted" THEN <<border_width, border_width, "Round">>
                ELSE <<border_width * 3, border_width * 3, "Butt">>
        stroke == [width |-> border_width, dash_pattern |-> <<dash[1], dash[2]>>,
                   dash_offset |-> 0, start_cap |-> dash[3], end_cap |-> dash[3]]
    IN IF color.alpha = 0 THEN <<>>
       ELSE CASE border_style \in {"None", "Hidden"} -> <<>>
              [] border_style \in {"Dotted", "Dashed"} -> <<StrokeCommand(stroke, color, path)>>
              [] border_style \in {"Solid", "Double", "Groove", "Ridge", "Inset", "Outset"} ->
                     <<FillCommand(color, path)>>

draw_border_edge_skips_unimplemented(cx, edge) ==
    LET color == resolve_to_absolute(cx.border[edge].color, cx.color)
        border_style == cx.border[edge].style
    IN IF color.alpha = 0 THEN <<>>
       ELSE IF border_style = "Solid" THEN <<FillCommand(color, border_edge_shape(edge))>>
       ELSE <<>>

\* ElementCx::draw_border_edge: the commands it issues to the scene
draw_border_edge(cx, edge) ==
    LET path == border_edge_shape(edge)
        color == resolve_to_absolute(cx.border[edge].color, cx.color)
        border_style == cx.border[edge].style
        border_width == cx.border_width[edge]
        alpha == color.alpha
        dot_size == Max(border_width, One)
        dash_size == border_width * 3
        dash == IF border_style = "Dotted" THEN <<dot_size, dot_size, "Round">>
                ELSE <<dash_size, dash_size, "Butt">>
        stroke == [width |-> border_width, dash_pattern |-> <<dash[1], dash[2]>>,
                   dash_offset |-> 0, start_cap |-> dash[3], end_cap |-> dash[3]]
    IN IF alpha = 0 THEN <<>>
       ELSE CASE border_style \in {"None", "Hidden"} -> <<>>
              [] border_style \in {"Dotted", "Dashed"} -> <<StrokeCommand(stroke, color, path)>>
              [] border_style \in {"Solid", "Double", "Groove", "Ridge", "Inset", "Outset"} ->
                     <<FillCommand(color, path)>>

\* OutlineStyle: auto, or a border style
OutlineAuto == [tag |-> "Auto"]
OutlineBorderStyle(style) == [tag |-> "BorderStyle", style |-> style]
\* CssBox::outline(), the contour standing for itself
outline_path == [path |-> "outline"]

\* ElementCx::draw_outline: the commands it issues to the scene
draw_outline(cx) ==
    LET color == resolve_to_absolute(cx.outline_color, cx.color)
        outline_width == cx.outline_width
        style == cx.outline_style.style
        dot_size == Max(outline_width, One)
        dash_size == outline_width * 3
        dash == IF style = "Dotted" THEN <<dot_size, dot_size, "Round">>
                ELSE <<dash_size, dash_size, "Butt">>
        stroke == [width |-> outline_width, dash_pattern |-> <<dash[1], dash[2]>>,
                   dash_offset |-> 0, start_cap |-> dash[3], end_cap |-> dash[3]]
    IN IF cx.outline_style.tag = "Auto" THEN <<>>
       ELSE CASE style \in {"None", "Hidden"} -> <<>>
              [] style \in {"Dotted", "Dashed"} -> <<StrokeCommand(stroke, color, outline_path)>>
              [] style = "Solid" -> <<FillCommand(color, outline_path)>>
              [] style \in {"Inset", "Groove", "Outset", "Ridge", "Double"} ->
                     <<FillCommand(color, outline_path)>>

\* ---- element_cx: the transform of an element

\* kurbo::Affine: the coefficients [a, b, c, d, e, f] of x' = ax + cy + e, y' = bx + dy + f
AffineNew(c) == c
AffineTranslate(v) == <<One, 0, 0, One, v.x, v.y>>
AffineMul(l, r) ==
    <<Mul(l[1], r[1]) + Mul(l[3], r[2]), Mul(l[2], r[1]) + Mul(l[4], r[2]),
      Mul(l[1], r[3]) + Mul(l[3], r[4]), Mul(l[2], r[3]) + Mul(l[4], r[4]),
      Mul(l[1], r[5]) + Mul(l[3], r[6]) + l[5], Mul(l[2], r[5]) + Mul(l[4], r[6]) + l[6]>>
AffineInverse(t) ==
    LET inv_det == Div(One, Mul(t[1], t[4]) - Mul(t[2], t[3]))
    IN <<Mul(inv_det, t[4]), Mul(0 - inv_det, t[2]), Mul(0 - inv_det, t[3]), Mul(inv_det, t[1]),
         Mul(inv_det, Mul(t[3], t[6]) - Mul(t[4], t[5])),
         Mul(inv_det, Mul(t[2], t[5]) - Mul(t[1], t[6]))>>

\* Transform3D: the six entries element_cx reads
Transform3D(m11, m12, m21, m22, m41, m42) ==
    [m11 |-> m11, m12 |-> m12, m21 |-> m21, m22 |-> m22, m41 |-> m41, m42 |-> m42]
Transform3DDefault == Transform3D(One, 0, 0, One, 0, 0)
\* the outcome of to_transform_3d_matrix: the matrix and has_3d, or an error
TransformOk(t, has_3d) == [tag |-> "Ok", t |-> t, has_3d |-> has_3d]
TransformErr == [tag |-> "Err"]

element_cx_applies_3d(style, layout, box_position, s) ==
    LET border_box == Rect(0, 0, Mul(layout.width, s), Mul(layout.height, s))
        t == IF style.transform.tag = "Ok" THEN style.transform.t ELSE Transform3DDefault
        kurbo_transform == AffineNew(<<t.m11, t.m12, t.m21, t.m22, t.m41, t.m42>>)
        origin_translation ==
            AffineTranslate(Pt(resolve_unpacked_value(style.transform_origin.horizontal,
                                                      width(border_box)),
                               resolve_unpacked_value(style.transform_origin.vertical,
                                                      height(border_box))))
    IN [pos |-> box_position, scale |-> s, border_box |-> border_box,
        transform |->
            AffineMul(AffineTranslate(Pt(Mul(box_position.x, s), Mul(box_position.y, s))),
                      AffineMul(AffineMul(origin_translation, kurbo_transform),
                                AffineInverse(origin_translation)))]

element_cx(style, layout, box_position, s) ==
    LET border_box == Rect(0, 0, Mul(layout.width, s), Mul(layout.height, s))
        transform == AffineTranslate(Pt(Mul(box_position.x, s), Mul(box_position.y, s)))
        unwrapped == IF style.transform.tag = "Ok" THEN style.transform
                     ELSE TransformOk(Transform3DDefault, FALSE)
        t == unwrapped.t
        has_3d == unwrapped.has_3d
        kurbo_transform == AffineNew(<<t.m11, t.m12, t.m21, t.m22, t.m41, t.m42>>)
        origin_translation ==
            AffineTranslate(Pt(resolve_unpacked_value(style.transform_origin.horizontal,
                                                      width(border_box)),
                               resolve_unpacked_value(style.transform_origin.vertical,
                                                      height(border_box))))
    IN [pos |-> box_position, scale |-> s, border_box |-> border_box,
        transform |->
            IF ~has_3d
            THEN AffineMul(transform,
                           AffineMul(AffineMul(origin_translation, kurbo_transform),
                                     AffineInverse(origin_translation)))
            ELSE transform]

\* ---- events: the document and its text inputs
\* a text is a sequence of one-character strings; PlainEditor holds the text and the
\* selection as anchor and focus, offsets between characters
Editor(text, anchor, focus) == [text |-> text, anchor |-> anchor, focus |-> focus]
sel_lo(e) == Min(e.anchor, e.focus)
sel_hi(e) == Max(e.anchor, e.focus)
NoText == [some |-> FALSE]
SomeText(t) == [some |-> TRUE, text |-> t]
selected_text(e) ==
    IF e.anchor = e.focus THEN NoText ELSE SomeText(SubSeq(e.text, sel_lo(e) + 1, sel_hi(e)))
replace_range(e, lo, hi, s) ==
    Editor(SubSeq(e.text, 1, lo) \o s \o SubSeq(e.text, hi + 1, Len(e.text)),
           lo + Len(s), lo + Len(s))
\* the start and the end of the line the focus is on
line_start(e) ==
    LET breaks == {i \in 1..e.focus : e.text[i] = "\n"}
    IN IF breaks = {} THEN 0 ELSE CHOOSE i \in breaks : \A j \in breaks : j <= i
line_end(e) ==
    LET breaks == {i \in (e.focus + 1)..Len(e.text) : e.text[i] = "\n"}
    IN IF breaks = {} THEN Len(e.text) ELSE (CHOOSE i \in breaks : \A j \in breaks : i <= j) - 1
\* the word boundary before and after the focus; a line break is a word of its own
word_left(e) == IF e.focus = 0 THEN 0
                ELSE IF line_start(e) = e.focus THEN e.focus - 1 ELSE line_start(e)
word_right(e) == IF e.focus = Len(e.text) THEN e.focus
                 ELSE IF line_end(e) = e.focus THEN e.focus + 1 ELSE line_end(e)
\* PlainEditorDriver
insert_or_replace_selection(e, s) == replace_range(e, sel_lo(e), sel_hi(e), s)
delete_selection(e) == replace_range(e, sel_lo(e), sel_hi(e), <<>>)
delete(e) ==
    IF e.anchor # e.focus THEN delete_selection(e)
    ELSE IF e.focus < Len(e.text) THEN replace_range(e, e.focus, e.focus + 1, <<>>) ELSE e
backdelete(e) ==
    IF e.anchor # e.focus THEN delete_selection(e)
    ELSE IF e.focus > 0 THEN replace_range(e, e.focus - 1, e.focus, <<>>) ELSE e
delete_word(e) ==
    IF e.anchor # e.focus THEN delete_selection(e)
    ELSE replace_range(e, e.focus, word_right(e), <<>>)
backdelete_word(e) ==
    IF e.anchor # e.focus THEN delete_selection(e)
    ELSE replace_range(e, word_left(e), e.focus, <<>>)
collapse_selection(e) == [e EXCEPT !.anchor = e.focus]
select_all(e) == [e EXCEPT !.anchor = 0, !.focus = Len(e.text)]
\* move_*: the caret goes to the offset, the selection collapses; select_*: the focus
\* goes to the offset, the anchor stays
move_to(e, offset) == [e EXCEPT !.anchor = offset, !.focus = offset]
select_to(e, offset) == [e EXCEPT !.focus = offset]
left_of(e) == IF e.focus > 0 THEN e.focus - 1 ELSE 0
right_of(e) == IF e.focus < Len(e.text) THEN e.focus + 1 ELSE e.focus
\* move_to_point and extend_selection_to_point: the event's point lies at an offset
move_to_point(e, offset) == move_to(e, Min(offset, Len(e.text)))
extend_selection_to_point(e, offset) == select_to(e, Min(offset, Len(e.text)))

\* SpecialElementData
SpecialNone == [tag |-> "None"]
TextInput(editor, is_multiline) ==
    [tag |-> "TextInput", editor |-> editor, is_multiline |-> is_multiline]
\* the nodes of the document: body 1, form 2 with a text input 3 and a checkbox 5,
\* the text node 4 inside the input, a textarea 6 and a div 7 outside the form
DomNodes == 1..7
DomNode(parent, is_element, local, type_attr) ==
    [parent |-> parent, is_element |-> is_element, local |-> local, type_attr |-> type_attr,
     disabled |-> FALSE, checked |-> FALSE, special_data |-> SpecialNone]
NodeId == [body |-> 1, form |-> 2, input |-> 3, inner_text |-> 4, checkbox |-> 5,
           textarea |-> 6, div |-> 7]
BodyId == NodeId.body
FormId == NodeId.form
InputId == NodeId.input
InnerTextId == NodeId.inner_text
CheckboxId == NodeId.checkbox
TextareaId == NodeId.textarea
DivId == NodeId.div
DomTree(input_editor, textarea_editor) ==
    [id \in DomNodes |->
        CASE id = BodyId -> DomNode(0, TRUE, "body", "")
          [] id = FormId -> DomNode(BodyId, TRUE, "form", "")
          [] id = InputId -> [DomNode(FormId, TRUE, "input", "text")
                                EXCEPT !.special_data = TextInput(input_editor, FALSE)]
          [] id = InnerTextId -> DomNode(InputId, FALSE, "", "")
          [] id = CheckboxId -> DomNode(FormId, TRUE, "input", "checkbox")
          [] id = TextareaId -> [DomNode(BodyId, TRUE, "textarea", "")
                                   EXCEPT !.special_data = TextInput(textarea_editor, TRUE)]
          [] id = DivId -> DomNode(BodyId, TRUE, "div", "")]
\* the clipboard of the shell: a text, or not available
ClipboardErr == [ok |-> FALSE]
ClipboardOk(text) == [ok |-> TRUE, text |-> text]
\* BaseDocument, with what a handler did to its surroundings: the events it
\* dispatched, its reads and writes of the clipboard, the forms it submitted
Document(nodes, focus_node_id, mousedown_node_id, clipboard) ==
    [nodes |-> nodes, focus_node_id |-> focus_node_id,
     mousedown_node_id |-> mousedown_node_id, clipboard |-> clipboard,
     controls_to_form |-> [id \in DomNodes |-> IF id \in {InputId, CheckboxId} THEN FormId ELSE 0],
     highlight_hover |-> FALSE,
     dispatched |-> <<>>, clipboard_gets |-> 0, clipboard_sets |-> 0, submitted |-> <<>>]
DomEvent(target, data) == [target |-> target, data |-> data]
InputEvent(value) == [tag |-> "Input", value |-> value]
ClickEvent == [tag |-> "Click"]
dispatch_event(d, ev) == [d EXCEPT !.dispatched = Append(@, ev)]

\* BaseDocument::focus_next_node: the focus goes to the next focusable element in
\* document order, to the first one from the last or from none
Focusable == {InputId, CheckboxId, TextareaId}
focus_next_node(d) ==
    LET after == {id \in Focusable : id > d.focus_node_id}
        next == IF after = {} THEN CHOOSE id \in Focusable : \A j \in Focusable : id <= j
                ELSE CHOOSE id \in after : \A j \in after : id <= j
    IN [d EXCEPT !.focus_node_id = next]
set_focus_to(d, id) == [d EXCEPT !.focus_node_id = id]
clear_focus(d) == [d EXCEPT !.focus_node_id = 0]
submit_form(d, form, submitter) ==
    [d EXCEPT !.submitted = Append(@, [form |-> form, submitter |-> submitter])]

\* ---- events: the keyboard
KeyTab == [tag |-> "Tab"]
KeyNamed(name) == [tag |-> name]
KeyCharacter(c) == [tag |-> "Character", c |-> c]
BlitzKeyEvent(key, code, pressed, shift, action_mod) ==
    [key |-> key, code |-> code, pressed |-> pressed, shift |-> shift,
     action_mod |-> action_mod]
\* what apply_keypress_event leaves: the input, the clipboard, its accesses, and the
\* generated event ("None", "Input" or "Submit")
Applied(input_data, editor, clipboard, gets, sets, generated) ==
    [input_data |-> [input_data EXCEPT !.editor = editor], clipboard |-> clipboard,
     gets |-> gets, sets |-> sets, generated |-> generated]

apply_keypress_event(input_data, clipboard, event) ==
    LET e == input_data.editor
        shift == event.shift
        action_mod == event.action_mod
        is_multiline == input_data.is_multiline
        key_char == IF event.key.tag = "Character" THEN event.key.c ELSE ""
        is_v == key_char = "v" \/ event.code = "KeyV"
        is_c == key_char = "c" \/ event.code = "KeyC"
        is_x == key_char = "x" \/ event.code = "KeyX"
        key == event.key.tag
        Keep(editor, generated) == Applied(input_data, editor, clipboard, 0, 0, generated)
        Go(ctrl_shift, ctrl, shifted, plain) ==
            IF action_mod THEN (IF shift THEN ctrl_shift ELSE ctrl)
            ELSE IF shift THEN shifted ELSE plain
    IN IF ~event.pressed THEN Keep(e, "None")
       ELSE IF action_mod /\ is_v
       THEN IF clipboard.ok
            THEN Applied(input_data, insert_or_replace_selection(e, clipboard.text),
                         clipboard, 1, 0, "Input")
            ELSE Applied(input_data, e, clipboard, 1, 0, "None")
       ELSE IF action_mod /\ is_c
       THEN IF selected_text(e).some
            THEN Applied(input_data, e, ClipboardOk(selected_text(e).text), 0, 1, "None")
            ELSE Keep(e, "None")
       ELSE IF action_mod /\ is_x
       THEN IF selected_text(e).some
            THEN Applied(input_data, delete_selection(e),
                         ClipboardOk(selected_text(e).text), 0, 1, "Input")
            ELSE Keep(e, "None")
       ELSE CASE key = "Character" /\ action_mod /\ key_char \in {"a", "A"} ->
                     Keep(IF shift THEN collapse_selection(e) ELSE select_all(e), "None")
              [] key = "ArrowLeft" ->
                     Keep(Go(select_to(e, word_left(e)), move_to(e, word_left(e)),
                             select_to(e, left_of(e)), move_to(e, left_of(e))), "None")
              [] key = "ArrowRight" ->
                     Keep(Go(select_to(e, word_right(e)), move_to(e, word_right(e)),
                             select_to(e, right_of(e)), move_to(e, right_of(e))), "None")
              [] key = "Home" ->
                     Keep(Go(select_to(e, 0), move_to(e, 0),
                             select_to(e, line_start(e)), move_to(e, line_start(e))), "None")
              [] key = "End" ->
                     Keep(Go(select_to(e, Len(e.text)), move_to(e, Len(e.text)),
                             select_to(e, line_end(e)), move_to(e, line_end(e))), "None")
              [] key = "Delete" ->
                     Keep(IF action_mod THEN delete_word(e) ELSE delete(e), "Input")
              [] key = "Backspace" ->
                     Keep(IF action_mod THEN backdelete_word(e) ELSE backdelete(e), "Input")
              [] key = "Enter" ->
                     IF is_multiline THEN Keep(insert_or_replace_selection(e, <<"\n">>), "None")
                     ELSE Keep(e, "Submit")
              [] key = "Character" /\ ~(action_mod /\ key_char \in {"a", "A"}) ->
                     Keep(insert_or_replace_selection(e, <<key_char>>), "Input")
              [] OTHER -> Keep(e, "None")

\* the text-like controls that block implicit submission
BlocksImplicitSubmission ==
    {"text", "search", "email", "url", "tel", "password", "date", "month", "week", "time",
     "datetime-local", "number"}
implicit_form_submission(d, text_target) ==
    LET form_owner_id == d.controls_to_form[text_target]
        fields == {id \in DomNodes : /\ d.controls_to_form[id] = form_owner_id
                                     /\ d.nodes[id].is_element
                                     /\ d.nodes[id].type_attr \in BlocksImplicitSubmission}
    IN IF form_owner_id = 0 THEN d
       ELSE IF Cardinality(fields) > 1 THEN d
       ELSE submit_form(d, form_owner_id, form_owner_id)

handle_keypress(d, target, event) ==
    IF event.key.tag = "Tab" THEN focus_next_node(d)
    ELSE LET node_id == IF d.focus_node_id # 0 THEN d.focus_node_id ELSE target
             node == d.nodes[node_id]
             r == apply_keypress_event(node.special_data, d.clipboard, event)
             edited == [d EXCEPT !.nodes[node_id].special_data = r.input_data,
                                 !.clipboard = r.clipboard,
                                 !.clipboard_gets = @ + r.gets,
                                 !.clipboard_sets = @ + r.sets]
         IN IF ~node.is_element THEN d
            ELSE IF node.special_data.tag # "TextInput" THEN d
            ELSE CASE r.generated = "Input" ->
                          dispatch_event(edited, DomEvent(node_id,
                                                          InputEvent(r.input_data.editor.text)))
                   [] r.generated = "Submit" -> implicit_form_submission(edited, target)
                   [] r.generated = "None" -> edited

\* ---- events: the mouse
\* BlitzMouseButtonEvent: the button, the node doc.hit(x, y) finds at the point (0 for
\* none) and the text offset the point lies at once it is clamped to the input
BlitzMouseButtonEvent(button, hit, offset) == [button |-> button, hit |-> hit, offset |-> offset]

RECURSIVE is_text_input_or_inside(_, _)
is_text_input_or_inside(d, node_id) ==
    IF node_id = 0 THEN FALSE
    ELSE IF d.nodes[node_id].is_element /\ d.nodes[node_id].special_data.tag = "TextInput"
    THEN TRUE
    ELSE is_text_input_or_inside(d, d.nodes[node_id].parent)

handle_mousedown(d, target, event) ==
    LET node == d.nodes[target]
    IN IF event.hit = 0 THEN d
       ELSE IF event.hit # target THEN d
       ELSE IF ~node.is_element THEN d
       ELSE IF node.disabled THEN d
       ELSE IF node.special_data.tag = "TextInput"
       THEN set_focus_to([d EXCEPT !.nodes[target].special_data.editor =
                                       move_to_point(collapse_selection(@), event.offset)],
                         event.hit)
       ELSE d

mousedown_was_inside(d) ==
    d.mousedown_node_id # 0 /\ is_text_input_or_inside(d, d.mousedown_node_id)

handle_mouseup(d, target, event) ==
    LET focused_node_id == d.focus_node_id
        finalized ==
            IF /\ event.button = "Main" /\ focused_node_id # 0 /\ mousedown_was_inside(d)
               /\ d.nodes[focused_node_id].is_element
               /\ d.nodes[focused_node_id].special_data.tag = "TextInput"
            THEN [d EXCEPT !.nodes[focused_node_id].special_data.editor =
                               extend_selection_to_point(@, event.offset)]
            ELSE d
    IN IF finalized.highlight_hover THEN [finalized EXCEPT !.highlight_hover = FALSE]
       ELSE IF event.button = "Main"
       THEN dispatch_event(finalized, DomEvent(target, ClickEvent))
       ELSE finalized

toggle_checkbox(el) == [el EXCEPT !.checked = ~@]
BoolText(b) == IF b THEN <<"t", "r", "u", "e">> ELSE <<"f", "a", "l", "s", "e">>

focus_after_click_ignores_mousedown(d, target) ==
    LET focused_id == d.focus_node_id
    IN IF focused_id # 0 /\ d.nodes[focused_id].is_element
          /\ d.nodes[focused_id].special_data.tag = "TextInput"
       THEN IF ~is_text_input_or_inside(d, target)
            THEN clear_focus([d EXCEPT !.nodes[focused_id].special_data.editor =
                                           collapse_selection(@)])
            ELSE d
       ELSE clear_focus(d)

\* handle_click once no element up from the target has taken the click
focus_after_click(d, target) ==
    LET focused_id == d.focus_node_id
        is_focused_text_input ==
            /\ d.nodes[focused_id].is_element
            /\ d.nodes[focused_id].special_data.tag = "TextInput"
        click_target_is_outside == ~is_text_input_or_inside(d, target)
    IN IF focused_id # 0 /\ is_focused_text_input
       THEN IF click_target_is_outside /\ ~mousedown_was_inside(d)
            THEN clear_focus([d EXCEPT !.nodes[focused_id].special_data.editor =
                                           collapse_selection(@)])
            ELSE d
       ELSE clear_focus(d)

\* the loop of handle_click from node_id up; the document has no radio button, label,
\* link, submit button or file input, whose arms are never taken in it
RECURSIVE click_from(_, _, _)
click_from(d, target, node_id) ==
    IF node_id = 0 THEN focus_after_click(d, target)
    ELSE LET el == d.nodes[node_id]
         IN IF ~el.is_element THEN click_from(d, target, el.parent)
            ELSE IF el.disabled THEN d
            ELSE IF el.special_data.tag = "TextInput" THEN d
            ELSE IF el.local = "input" /\ el.type_attr = "checkbox"
            THEN set_focus_to(
                     dispatch_event([d EXCEPT !.nodes[node_id] = toggle_checkbox(@)],
                                    DomEvent(node_id, InputEvent(BoolText(~el.checked)))),
                     node_id)
            ELSE click_from(d, target, el.parent)

handle_click(d, target, event) == click_from(d, target, target)

\* ---- events: the handlers as steps of the document
\* the document as a handler finds it: nothing dispatched yet
Fresh(d) == [d EXCEPT !.dispatched = <<>>, !.clipboard_gets = 0, !.clipboard_sets = 0,
                      !.submitted = <<>>]
\* the event handled last and its target; for a click, the document it found
Handled(fn, target, button, before) ==
    [fn |-> fn, target |-> target, button |-> button, before |-> before]
\* the nodes a point can hit: the body and the form lie under their children
Targets == {InputId, InnerTextId, CheckboxId, TextareaId, DivId}
\* the event driver keeps the node of the latest mouse-down
record_mousedown(d, target) == [d EXCEPT !.mousedown_node_id = target]
\* the offsets a point can lie at
PointOffsets == {0, 2}
render_vars == <<tree, scale, resolver_vars, paint_vars, shape_vars>>

mouse_down ==
    \E target \in Targets, hit \in BOOLEAN, offset \in PointOffsets :
        LET event == BlitzMouseButtonEvent("Main", IF hit THEN target ELSE 0, offset)
        IN /\ doc # NoDocument
           /\ doc' = record_mousedown(handle_mousedown(Fresh(doc), target, event), target)
           /\ handled' = Handled("handle_mousedown", target, event.button, NoDocument)
           /\ UNCHANGED render_vars

mouse_up ==
    \E target \in Targets, button \in {"Main", "Secondary"}, offset \in PointOffsets :
        LET event == BlitzMouseButtonEvent(button, target, offset)
        IN /\ doc # NoDocument
           /\ doc' = handle_mouseup(Fresh(doc), target, event)
           /\ handled' = Handled("handle_mouseup", target, event.button, NoDocument)
           /\ UNCHANGED render_vars

\* the default action of the click event handle_mouseup has dispatched
click ==
    /\ doc # NoDocument
    /\ handled.fn = "handle_mouseup"
    /\ Len(doc.dispatched) = 1
    /\ LET target == doc.dispatched[1].target
       IN /\ doc' = handle_click(Fresh(doc), target,
                                  BlitzMouseButtonEvent(handled.button, target, 0))
          /\ handled' = Handled("handle_click", target, handled.button, Fresh(doc))
    /\ UNCHANGED render_vars

\* a document with a selection or a caret in the text input, the focus on a focusable
\* element or on none, the div disabled or not, no mouse button down yet
MouseDocuments ==
    {[Document(DomTree(ie, Editor(<<"a", "\n", "b">>, 2, 2)), focus, 0, ClipboardErr)
        EXCEPT !.nodes[DivId].disabled = disabled, !.highlight_hover = hover] :
        ie \in {Editor(<<"a", "b">>, 0, 0), Editor(<<"a", "b">>, 0, 2)},
        focus \in {0} \cup Focusable, disabled \in BOOLEAN, hover \in BOOLEAN}
InitEvents ==
    /\ scale = 1
    /\ view = DefaultView
    /\ tree = [n \in Nodes |-> DefaultNode(n)]
    /\ InitResolver
    /\ painting = "idle" /\ pstack = <<>> /\ trace = <<>>
    /\ shape_call = NoCall
    /\ shape_ret = Pending
    /\ doc \in MouseDocuments
    /\ handled = NoEvent
NextEvents ==
    \/ mouse_down
    \/ mouse_up
    \/ click
SpecEvents == InitEvents /\ [][NextEvents]_vars

\* ---- the arguments the functions are called with
\* offsets of a point from the center whose length is a whole number of px
Offsets == {Pt(0, 0), Pt(10 * One, 0), Pt(0, 0 - 10 * One), Pt(3 * One, 4 * One),
            Pt(0 - 6 * One, 8 * One), Pt(0 - 3 * One, 0 - 4 * One)}
ExpandCalls ==
    {[fn |-> "expand_polygon_point", point |-> Pt(c.x + o.x, c.y + o.y),
      bounding_box_center |-> c, margin |-> m * One] :
        c \in {Pt(0, 0), Pt(50 * One, 50 * One)}, o \in Offsets,
        m \in {0 - 5, 0, 5, 5 * MaxCoord}}
\* whole and half px values
Coords == {(c * One) \div 2 : c \in (0 - 2)..(2 * MaxCoord)}
Sizes == {c * One : c \in 0..MaxCoord}
Rects == {Rect(x0, y0, x0 + w, y0 + h) : x0 \in {0, One}, y0 \in {0, 2 * One},
                                         w \in Sizes, h \in Sizes}
Unpackeds ==
    {Length(c * One) : c \in {0, 2, 42}}
    \cup {Percentage(p) : p \in {0, One \div 10, One \div 2, One, 2 * One}}
    \cup {Calc(One, One \div 2)}

UnpackedCalls ==
    [fn : {"resolve_unpacked_value"}, unpacked : Unpackeds,
     axis : Sizes \cup {100 * One, 200 * One}]
PositionCalls ==
    [fn : {"resolve_shape_position"},
     position : {Auto, Position(Length(One), Percentage(One \div 2))},
     reference_rect : Rects]
RadiusCalls ==
    [fn : {"resolve_shape_radius"},
     radius : {ClosestSide, FarthestSide, RadiusLength(Percentage(One \div 2))},
     center : {Pt(x, y) : x \in Coords, y \in {0, One, (3 * One) \div 2, 2 * One}},
     reference_rect : {r \in Rects : r.y0 = 0},
     axis : {2 * One}]

\* the text of a whole number of up to two digits
NumberText(n) ==
    LET a == IF n < 0 THEN 0 - n ELSE n
        digits == IF a < 10 THEN <<DigitChars[a + 1]>>
                  ELSE <<DigitChars[(a \div 10) + 1], DigitChars[(a % 10) + 1]>>
    IN IF n < 0 THEN <<"-">> \o digits ELSE digits
MarginNumbers == {0 - 5, 0, 7, 10, 15}
PxUnits == {<<"p", "x">>, <<"P", "X">>, <<"P", "x">>}
OtherUnits == {<<"e", "m">>, <<"p", "t">>}
Pads == {<<>>, <<" ">>}
PxTexts(n) == {pad \o NumberText(n) \o u : pad \in Pads, u \in PxUnits}
UnitlessTexts(n) == {pad \o NumberText(n) : pad \in Pads}
PercentTexts(n) == {pad \o NumberText(n) \o <<"%">> : pad \in Pads}
OtherTexts ==
    {NumberText(n) \o u : n \in MarginNumbers, u \in OtherUnits}
    \cup {<<>>, <<" ">>, <<"b", "o", "g", "u", "s">>, <<"a", "u", "t", "o">>, <<"-">> \o <<"a", "u", "t", "o">>, <<"%">>}
MarginTexts ==
    OtherTexts \cup UNION {PxTexts(n) \cup UnitlessTexts(n) \cup PercentTexts(n) :
                             n \in MarginNumbers}
MarginRects == {Rect(0, 0, 200 * One, 100 * One), Rect(One, 0, 51 * One, 10 * One)}
ParseMarginCalls ==
    {[fn |-> "parse_shape_margin_value", raw_value |-> t, reference_rect |-> r] :
        t \in MarginTexts, r \in MarginRects}

\* a declaration of an inline style, and the text of a list of them
Decl(name, value) == [name |-> name, colon |-> TRUE, value |-> value]
Bare(name) == [name |-> name, colon |-> FALSE, value |-> <<>>]
ShapeMarginNames == {<<"s", "h", "a", "p", "e", "-", "m", "a", "r", "g", "i", "n">>, <<"S", "h", "a", "p", "e", "-", "M", "A", "R", "G", "I", "N">>, <<" ">> \o <<"s", "h", "a", "p", "e", "-", "m", "a", "r", "g", "i", "n">> \o <<" ">>}
OtherNames == {<<"c", "o", "l", "o", "r">>, <<"s", "h", "a", "p", "e", "-", "m", "a", "r", "g", "i", "n">> \o <<"s">>}
DeclValues == {<<"1", "5", "p", "x">>, <<" ">> \o <<"1", "5", "p", "x">>, <<"-", "5", "p", "x">>, <<"1", "0", "%">>, <<"7">>, <<"2", "e", "m">>, <<"b", "o", "g", "u", "s">>, <<>>}
Decls == {Decl(n, v) : n \in ShapeMarginNames \cup OtherNames, v \in DeclValues}
           \cup {Bare(<<>>), Bare(<<"s", "h", "a", "p", "e", "-", "m", "a", "r", "g", "i", "n">>)}
FewDecls == {Decl(<<"s", "h", "a", "p", "e", "-", "m", "a", "r", "g", "i", "n">>, <<"1", "5", "p", "x">>), Decl(<<"S", "h", "a", "p", "e", "-", "M", "A", "R", "G", "I", "N">>, <<"1", "0", "%">>), Decl(<<"s", "h", "a", "p", "e", "-", "m", "a", "r", "g", "i", "n">>, <<"b", "o", "g", "u", "s">>),
             Decl(<<"c", "o", "l", "o", "r">>, <<"1", "5", "p", "x">>), Bare(<<>>), Bare(<<"s", "h", "a", "p", "e", "-", "m", "a", "r", "g", "i", "n">>)}
DeclLists == {<<d>> : d \in Decls} \cup {<<d, e>> : d \in FewDecls, e \in FewDecls}
DeclText(d) == IF d.colon THEN d.name \o <<":">> \o d.value ELSE d.name
StyleText(ds) ==
    LET RECURSIVE Join(_)
        Join(k) == IF k = 1 THEN DeclText(ds[1]) ELSE Join(k - 1) \o <<";">> \o DeclText(ds[k])
    IN Join(Len(ds))
StyleAttrs == {NoAttr} \cup {Attr(StyleText(ds)) : ds \in DeclLists}
ResolveMarginCalls ==
    {[fn |-> "resolve_shape_margin_for_node", style_attr |-> a, reference_rect |-> r] :
        a \in StyleAttrs, r \in MarginRects}
\* arcs between the four axis points of the unit circle
AxisPoints == {Pt(One, 0), Pt(0, One), Pt(0 - One, 0), Pt(0, 0 - One)}
ArcCalls ==
    {c \in [fn : {"stylo_to_kurbo_arc"}, start : AxisPoints, end : AxisPoints,
            radii : {Pt(One, One)}, arc_sweep : {"Cw", "Ccw"},
            arc_size : {"Small", "Large"}, x_axis_rotation : {0, 90}] : c.start # c.end}
\* frames whose four rectangles differ, and one whose rectangles coincide
Frames ==
    {CssBox(Rect(0, 0, w, 4 * One), Rect(b, b, w - b, 4 * One - b),
            Rect(b + p, b + p, w - b - p, 4 * One - b - p),
            Rect(0 - m, 0 - m, w + m, 4 * One + m)) :
        w \in {6 * One, (4 + MaxCoord) * One}, b \in {0, One \div 2}, p \in {0, One},
        m \in {0 - One, 0, 2 * One}}
GeometryBoxes ==
    {ShapeBox(b) : b \in {"BorderBox", "PaddingBox", "ContentBox", "MarginBox"}}
    \cup {FillBox, StrokeBox, ViewBox, ElementDependent}
GeometryBoxCalls ==
    [fn : {"clip_path_for_geometry_box", "reference_rect_for_geometry_box"},
     frame : Frames, geometry_box : GeometryBoxes]
\* edge offsets that leave the bounds in order and ones that invert them
Offsets4 == {Length(0), Length(One), Percentage((6 * One) \div 10), Length(0 - One)}
Rounds == {[top_left |-> c, top_right |-> Length(0), bottom_right |-> c,
            bottom_left |-> Percentage(One \div 10)] : c \in {Length(0), Length(One)}}
RectShapeCalls ==
    {[fn |-> "basic_shape_to_path", frame |-> f,
      shape |-> RectShape(InsetRect(t, r, b, l, rd)), reference_rect |-> f.border_box,
      shape_margin |-> m * One] :
        f \in {g \in Frames : g.padding_box = g.border_box /\ g.margin_box = g.border_box},
        t \in Offsets4, r \in Offsets4, b \in Offsets4, l \in Offsets4, rd \in Rounds,
        m \in {0, 1, 0 - MaxCoord}}
\* command lists of up to MaxCmds commands, absolute and relative: every list of up
\* to three commands, and every list of three continued by repetitions of one more
Half == One \div 2
PathCommands ==
    {MoveCmd(ToPosition(One, One)), MoveCmd(ByCoordinate(One, 0)),
     LineCmd(ByCoordinate(0, One)), LineCmd(ToPosition(Half, 0)),
     HLineCmd("by", One), VLineCmd("to", Half),
     QuadCurveCmd(ToPosition(One, 0), Pt(Half, One)),
     CubicCurveCmd(ByCoordinate(One, One), Pt(0, Half), Pt(One, Half)),
     SmoothQuadCmd(ByCoordinate(One, 0)),
     SmoothCubicCmd(ToPosition(0, One), Pt(Half, 0)),
     ArcCmd(ToPosition(One, One), Pt(One, One), "Cw", "Small", 0),
     CloseCmd}
CommandLists(alphabet, more) ==
    UNION {[1..k -> alphabet] : k \in 0..Min(MaxCmds, 3)}
    \cup {cs \o [i \in 1..j |-> more] : cs \in [1..3 -> alphabet], j \in 1..(MaxCmds - 3)}
MorePath == LineCmd(ByCoordinate(0, One))
MoreShape == LineCmd(ByCoordinate(Length(0), Percentage(One)))
BezPathCalls ==
    {[fn |-> "commands_to_bez_path", cmds |-> cs] : cs \in CommandLists(PathCommands, MorePath)}
\* path() and shape() functions: a frame and the command lists above; the commands
\* of shape() carry lengths and percentages
PlainFrame(r) == CssBox(r, r, r, r)
PathRects == {Rect(One, 2 * One, 5 * One, 4 * One), Rect(0, 0, 10 * One, 10 * One)}
ShapeCommands ==
    {MoveCmd(ToPosition(Length(One), Percentage(Half))),
     MoveCmd(ByCoordinate(Percentage(Half), Length(0))),
     LineCmd(ByCoordinate(Length(0), Percentage(One))),
     LineCmd(ToPosition(Percentage(One), Length(2 * One))),
     HLineCmd("by", Percentage(Half)), VLineCmd("to", Length(One)),
     QuadCurveCmd(ToPosition(Percentage(One), Length(0)), Pt(Percentage(Half), Length(One))),
     SmoothCubicCmd(ToPosition(Length(0), Percentage(One)), Pt(Percentage(Half), Length(0))),
     ArcCmd(ToPosition(Length(One), Length(One)), Pt(Percentage(Half), Percentage(Half)),
            "Cw", "Small", 0),
     CloseCmd}
PathShapeCalls ==
    {[fn |-> "basic_shape_to_path", frame |-> PlainFrame(r), shape |-> PathFunction(cs),
      reference_rect |-> r, shape_margin |-> 0] :
        r \in PathRects, cs \in CommandLists(PathCommands, MorePath)}
    \cup {[fn |-> "basic_shape_to_path", frame |-> PlainFrame(r), shape |-> ShapeFunction(cs),
           reference_rect |-> r, shape_margin |-> 0] :
        r \in PathRects, cs \in CommandLists(ShapeCommands, MoreShape)}
\* circles and ellipses at the center of the box, inside it and outside it
ShapePositions == {Auto, Position(Length(One), Percentage(Half)),
                   Position(Length(0 - 2 * One), Percentage(Half))}
ShapeRadii == {ClosestSide, FarthestSide, RadiusLength(Percentage(Half)), RadiusLength(Length(One))}
RoundShapeCalls ==
    {[fn |-> "basic_shape_to_path", frame |-> PlainFrame(r), shape |-> s,
      reference_rect |-> r, shape_margin |-> m * One] :
        r \in PathRects \cup {Rect(0, 0, 0, 0)}, m \in {0 - 1, 0, 1, MaxCoord},
        s \in {CircleShape(p, rad) : p \in ShapePositions, rad \in ShapeRadii}
              \cup {EllipseShape(p, rx, ry) : p \in ShapePositions, rx \in ShapeRadii,
                                              ry \in ShapeRadii}}
\* elements with a basic-shape clip-path in each geometry box, with and without a
\* shape-margin in the style attribute
MarginAttrs == {NoAttr, Attr(<<"s", "h", "a", "p", "e", "-", "m", "a", "r", "g", "i", "n", ":", "1", "0", "%">>),
                Attr(<<"s", "h", "a", "p", "e", "-", "m", "a", "r", "g", "i", "n", ":", "1", "p", "x">>)}
ClipShapes == {CircleShape(Auto, RadiusLength(Length(One))),
               RectShape(InsetRect(Length(0), Length(0), Length(0), Length(0),
                                   [top_left |-> Length(0), top_right |-> Length(0),
                                    bottom_right |-> Length(0), bottom_left |-> Length(0)]))}
ClipShapeCalls ==
    [fn : {"clip_path_from_styles_inner"}, frame : Frames, style_attr : MarginAttrs,
     basic_shape : ClipShapes, geometry_box : GeometryBoxes]
\* one edge of every style, colour and width; the other three edges alike, drawn or not
EdgeColors == {AbsoluteColor(0), AbsoluteColor(One \div 2), AbsoluteColor(One), CurrentColor}
BorderCalls ==
    {[fn |-> "draw_border_edge", edge |-> e,
      cx |-> [border |-> [d \in Edges |-> IF d = e THEN [color |-> c, style |-> s] ELSE rest],
              color |-> AbsoluteColor(cur),
              border_width |-> [d \in Edges |-> IF d = e THEN w ELSE One]]] :
        e \in Edges, c \in EdgeColors, s \in BorderStyles, cur \in {0, One},
        w \in {0, One \div 2, MaxCoord * One},
        rest \in {[color |-> AbsoluteColor(One), style |-> "Solid"],
                  [color |-> AbsoluteColor(0), style |-> "None"]}}
\* outlines of every style, colour and width
OutlineCalls ==
    {[fn |-> "draw_outline",
      cx |-> [outline_style |-> s, outline_color |-> c, color |-> AbsoluteColor(One),
              outline_width |-> w]] :
        s \in {OutlineAuto} \cup {OutlineBorderStyle(b) : b \in BorderStyles},
        c \in EdgeColors, w \in {0, One \div 2, One, MaxCoord * One}}
\* two-dimensional transforms (identity, translation, scaling, quarter turn), true
\* three-dimensional ones (a turn about the y axis, a translation with depth, a
\* translation along z only) and one that does not resolve
Transforms ==
    {TransformOk(Transform3DDefault, FALSE),
     TransformOk(Transform3D(One, 0, 0, One, One, 2 * One), FALSE),
     TransformOk(Transform3D(2 * One, 0, 0, 2 * One, 0, 0), FALSE),
     TransformOk(Transform3D(0, One, 0 - One, 0, 0, 0), FALSE),
     TransformOk(Transform3D(One \div 2, 0, 0, One, 0, 0), TRUE),
     TransformOk(Transform3D(One, 0, 0, One, One, 2 * One), TRUE),
     TransformOk(Transform3DDefault, TRUE),
     TransformErr}
TransformOrigins ==
    [horizontal : {Length(0), Percentage(One \div 2), Length(One)},
     vertical : {Percentage(One \div 2), Length(One)}]
ElementCxCalls ==
    [fn : {"element_cx"},
     style : [transform : Transforms, transform_origin : TransformOrigins],
     layout : {[width |-> 4 * One, height |-> 2 * One], [width |-> 0, height |-> 0]},
     box_position : {Pt(0, 0), Pt(One, MaxCoord * One)},
     scale : {One, 2 * One}]
\* editors over a text with every selection: "" and "ab" in the input, "a\nb" in the
\* textarea; the input varies while it or nothing has the focus, the textarea while it
\* has; a clipboard that holds "b", holds "" or is not available
EditorsOver(t) == {Editor(t, a, f) : a \in 0..Len(t), f \in 0..Len(t)}
InputEditors == EditorsOver(<<>>) \cup EditorsOver(<<"a", "b">>)
TextareaEditors == EditorsOver(<<"a", "\n", "b">>)
Clipboards == {ClipboardErr, ClipboardOk(<<>>), ClipboardOk(<<"b">>)}
KeyDocuments ==
    {Document(DomTree(ie, Editor(<<"a", "\n", "b">>, 1, 1)), focus, 0, cb) :
        ie \in InputEditors, focus \in {0, InputId}, cb \in Clipboards}
    \cup {Document(DomTree(Editor(<<"a", "b">>, 0, 2), te), focus, 0, cb) :
        te \in TextareaEditors, focus \in {TextareaId, CheckboxId}, cb \in Clipboards}
\* keys with the code of the physical key; the key "q" on the physical key V is what a
\* layout other than the US one sends
Keys ==
    {<<KeyTab, "Tab">>, <<KeyNamed("Enter"), "Enter">>, <<KeyNamed("Delete"), "Delete">>,
     <<KeyNamed("Backspace"), "Backspace">>, <<KeyNamed("ArrowLeft"), "ArrowLeft">>,
     <<KeyNamed("ArrowRight"), "ArrowRight">>, <<KeyNamed("Home"), "Home">>,
     <<KeyNamed("End"), "End">>, <<KeyNamed("Escape"), "Escape">>,
     <<KeyCharacter("a"), "KeyA">>, <<KeyCharacter("c"), "KeyC">>,
     <<KeyCharacter("v"), "KeyV">>, <<KeyCharacter("x"), "KeyX">>,
     <<KeyCharacter("q"), "KeyV">>}
KeyEvents ==
    {BlitzKeyEvent(k[1], k[2], pressed, shift, action_mod) :
        k \in Keys, pressed \in BOOLEAN, shift \in BOOLEAN, action_mod \in BOOLEAN}
KeypressCalls ==
    [fn : {"handle_keypress"}, doc : KeyDocuments, target : {InputId, DivId},
     event : KeyEvents]
ShapeCalls ==
    UnpackedCalls \cup PositionCalls \cup RadiusCalls \cup ExpandCalls
    \cup ParseMarginCalls \cup ResolveMarginCalls \cup ArcCalls
    \cup GeometryBoxCalls \cup RectShapeCalls \cup BezPathCalls
    \cup PathShapeCalls \cup RoundShapeCalls \cup ClipShapeCalls \cup BorderCalls
    \cup OutlineCalls \cup ElementCxCalls \cup KeypressCalls

call_resolve_unpacked_value ==
    /\ shape_call.fn = "resolve_unpacked_value" /\ shape_ret = Pending
    /\ shape_ret' = Ret(resolve_unpacked_value(shape_call.unpacked, shape_call.axis))
    /\ UNCHANGED <<doc, handled, shape_call, tree, scale, view>>
    /\ UNCHANGED <<resolver_vars, painting, pstack, trace>>

call_resolve_shape_position ==
    /\ shape_call.fn = "resolve_shape_position" /\ shape_ret = Pending
    /\ shape_ret' = Ret(resolve_shape_position(shape_call.position,
                                               shape_call.reference_rect))
    /\ UNCHANGED <<doc, handled, shape_call, tree, scale, view>>
    /\ UNCHANGED <<resolver_vars, painting, pstack, trace>>

call_resolve_shape_radius ==
    /\ shape_call.fn = "resolve_shape_radius" /\ shape_ret = Pending
    /\ shape_ret' = Ret(resolve_shape_radius(shape_call.radius, shape_call.center,
                                             shape_call.reference_rect, shape_call.axis))
    /\ UNCHANGED <<doc, handled, shape_call, tree, scale, view>>
    /\ UNCHANGED <<resolver_vars, painting, pstack, trace>>

call_expand_polygon_point ==
    /\ shape_call.fn = "expand_polygon_point" /\ shape_ret = Pending
    /\ shape_ret' = Ret(expand_polygon_point(shape_call.point, shape_call.bounding_box_center,
                                             shape_call.margin))
    /\ UNCHANGED <<doc, handled, shape_call, tree, scale, view>>
    /\ UNCHANGED <<resolver_vars, painting, pstack, trace>>

call_parse_shape_margin_value ==
    /\ shape_call.fn = "parse_shape_margin_value" /\ shape_ret = Pending
    /\ shape_ret' = Ret(parse_shape_margin_value(shape_call.raw_value, shape_call.reference_rect))
    /\ UNCHANGED <<doc, handled, shape_call, tree, scale, view>>
    /\ UNCHANGED <<resolver_vars, painting, pstack, trace>>

call_resolve_shape_margin_for_node ==
    /\ shape_call.fn = "resolve_shape_margin_for_node" /\ shape_ret = Pending
    /\ shape_ret' = Ret(resolve_shape_margin_for_node(shape_call.style_attr,
                                                      shape_call.reference_rect))
    /\ UNCHANGED <<doc, handled, shape_call, tree, scale, view>>
    /\ UNCHANGED <<resolver_vars, painting, pstack, trace>>

call_stylo_to_kurbo_arc ==
    /\ shape_call.fn = "stylo_to_kurbo_arc" /\ shape_ret = Pending
    /\ shape_ret' = Ret(stylo_to_kurbo_arc(shape_call.start, shape_call.end, shape_call.radii,
                                           shape_call.arc_sweep, shape_call.arc_size,
                                           shape_call.x_axis_rotation))
    /\ UNCHANGED <<doc, handled, shape_call, tree, scale, view>>
    /\ UNCHANGED <<resolver_vars, painting, pstack, trace>>

call_clip_path_for_geometry_box ==
    /\ shape_call.fn = "clip_path_for_geometry_box" /\ shape_ret = Pending
    /\ shape_ret' = Ret(geometry_box_path(shape_call.frame, shape_call.geometry_box))
    /\ UNCHANGED <<doc, handled, shape_call, tree, scale, view>>
    /\ UNCHANGED <<resolver_vars, painting, pstack, trace>>

call_reference_rect_for_geometry_box ==
    /\ shape_call.fn = "reference_rect_for_geometry_box" /\ shape_ret = Pending
    /\ shape_ret' = Ret(reference_rect_for_geometry_box(shape_call.frame,
                                                        shape_call.geometry_box))
    /\ UNCHANGED <<doc, handled, shape_call, tree, scale, view>>
    /\ UNCHANGED <<resolver_vars, painting, pstack, trace>>

call_basic_shape_to_path ==
    /\ shape_call.fn = "basic_shape_to_path" /\ shape_ret = Pending
    /\ shape_ret' = Ret(shape_to_path(shape_call.frame, shape_call.shape,
                                      shape_call.reference_rect, shape_call.shape_margin))
    /\ UNCHANGED <<doc, handled, shape_call, tree, scale, view>>
    /\ UNCHANGED <<resolver_vars, painting, pstack, trace>>

call_commands_to_bez_path ==
    /\ shape_call.fn = "commands_to_bez_path" /\ shape_ret = Pending
    /\ shape_ret' = Ret(commands_to_bez_path(shape_call.cmds))
    /\ UNCHANGED <<doc, handled, shape_call, tree, scale, view>>
    /\ UNCHANGED <<resolver_vars, painting, pstack, trace>>

call_clip_path_from_styles_inner ==
    /\ shape_call.fn = "clip_path_from_styles_inner" /\ shape_ret = Pending
    /\ shape_ret' = Ret(clip_path_from_styles_inner_shape(shape_call.frame, shape_call.style_attr,
                                                          shape_call.basic_shape,
                                                          shape_call.geometry_box))
    /\ UNCHANGED <<doc, handled, shape_call, tree, scale, view>>
    /\ UNCHANGED <<resolver_vars, painting, pstack, trace>>

call_draw_border_edge ==
    /\ shape_call.fn = "draw_border_edge" /\ shape_ret = Pending
    /\ shape_ret' = Ret(draw_border_edge(shape_call.cx, shape_call.edge))
    /\ UNCHANGED <<doc, handled, shape_call, tree, scale, view>>
    /\ UNCHANGED <<resolver_vars, painting, pstack, trace>>

call_draw_outline ==
    /\ shape_call.fn = "draw_outline" /\ shape_ret = Pending
    /\ shape_ret' = Ret(draw_outline(shape_call.cx))
    /\ UNCHANGED <<doc, handled, shape_call, tree, scale, view>>
    /\ UNCHANGED <<resolver_vars, painting, pstack, trace>>

call_element_cx ==
    /\ shape_call.fn = "element_cx" /\ shape_ret = Pending
    /\ shape_ret' = Ret(element_cx(shape_call.style, shape_call.layout,
                                   shape_call.box_position, shape_call.scale))
    /\ UNCHANGED <<doc, handled, shape_call, tree, scale, view>>
    /\ UNCHANGED <<resolver_vars, painting, pstack, trace>>

call_handle_keypress ==
    /\ shape_call.fn = "handle_keypress" /\ shape_ret = Pending
    /\ shape_ret' = Ret(handle_keypress(shape_call.doc, shape_call.target, shape_call.event))
    /\ UNCHANGED <<doc, handled, shape_call, tree, scale, view>>
    /\ UNCHANGED <<resolver_vars, painting, pstack, trace>>

InitShape ==
    /\ scale = 1
    /\ view = DefaultView
    /\ tree = [n \in Nodes |-> DefaultNode(n)]
    /\ InitResolver
    /\ painting = "idle" /\ pstack = <<>> /\ trace = <<>>
    /\ shape_call \in ShapeCalls
    /\ shape_ret = Pending
    /\ doc = NoDocument
    /\ handled = NoEvent

NextShape ==
    \/ call_resolve_unpacked_value
    \/ call_resolve_shape_position
    \/ call_resolve_shape_radius
    \/ call_expand_polygon_point
    \/ call_parse_shape_margin_value
    \/ call_resolve_shape_margin_for_node
    \/ call_stylo_to_kurbo_arc
    \/ call_clip_path_for_geometry_box
    \/ call_reference_rect_for_geometry_box
    \/ call_basic_shape_to_path
    \/ call_commands_to_bez_path
    \/ call_clip_path_from_styles_inner
    \/ call_draw_border_edge
    \/ call_draw_outline
    \/ call_element_cx
    \/ call_handle_keypress

SpecShape == InitShape /\ [][NextShape]_vars

\* ---------------------------------------------------------------- what the claims speak of
\* where the url() chain that starts at n ends: "cycle" when it comes back to an
\* element already on it, "absent" when the referenced element is missing or unstyled,
\* otherwise the tag of the clip-path the chain ends at
RECURSIVE ChainEnd(_, _)
ChainEnd(n, seen) ==
    IF n \in seen THEN "cycle"
    ELSE IF tree[n].clip_path.tag # "Url" THEN tree[n].clip_path.tag
    ELSE LET t == get_element_by_id(tree[n].clip_path.fragment) IN
         IF t = 0 THEN "absent"
         ELSE IF ~tree[t].has_style THEN "absent"
         ELSE ChainEnd(t, seen \cup {n})

LeadsIntoCycle(n) == tree[n].has_style /\ ChainEnd(n, {}) = "cycle"
Idle == call = 0
\* clip_path_from_styles_inner has just returned for n
Returned(n) == last_ret.node = n
\* clip_path_from_styles has returned for n and no call is in progress
Resolved(n) == Idle /\ result.node = n
\* m references n by url(), both styled
RefersTo(m, n) == tree[m].has_style /\ tree[m].clip_path = ClipUrl(n) /\ tree[n].has_style

\* C1: every top-level clip-path resolution terminates, whatever the url() reference
\* graph, and an element whose url() chain leads into a cycle resolves to no clip
C1_CycleSafety ==
    /\ [](\A n \in Nodes : LeadsIntoCycle(n) =>
             /\ (Returned(n) => ~last_ret.value.some)
             /\ (Resolved(n) => ~result.path.some)
             /\ ~clip_path_cache[n].some)
    /\ [](Len(stack) <= MaxNodes)
    /\ (~Idle ~> Idle)

\* the chain a -> b -> c -> b was resolved from a, to no clip
C1_Witness ==
    \E a, b, c \in Nodes :
        /\ a # b /\ b # c /\ a # c
        /\ RefersTo(a, b) /\ RefersTo(b, c) /\ RefersTo(c, b)
        /\ Resolved(a) /\ ~result.path.some /\ last_ret.how = "failure"

\* C2: within one pass basic_shape_to_path runs at most once for an element with a
\* basic-shape clip-path; later resolutions are cache hits
C2_ShapeBuiltOnce ==
    \A n \in Nodes : tree[n].clip_path = ClipShape =>
        /\ calls[n] <= 1
        /\ (calls[n] = 1 /\ n \notin visited => clip_path_cache[n].some)
        /\ (Returned(n) => last_ret.how \in {"hit", "success"})

\* a shape element was resolved through a url() reference and then again directly,
\* the second time from the cache
C2_Witness ==
    \E n, m \in Nodes :
        /\ tree[n].clip_path = ClipShape /\ RefersTo(m, n)
        /\ clip_path_cache[m].some
        /\ Resolved(n) /\ last_ret.how = "hit"
        /\ calls[n] = 1

\* C3: a cache entry is never replaced or removed, and a lookup of a cached element
\* returns the cached contour itself
C3_CacheStable ==
    [][\A n \in Nodes : clip_path_cache[n].some =>
          /\ clip_path_cache'[n] = clip_path_cache[n]
          /\ (last_ret' # last_ret /\ last_ret'.node = n
                => last_ret'.value = clip_path_cache[n])]_vars

\* two elements hold different entries and one of them was looked up again
C3_Witness ==
    \E n, m \in Nodes :
        /\ clip_path_cache[n].some /\ clip_path_cache[m].some
        /\ clip_path_cache[n].node # clip_path_cache[m].node
        /\ tree[n].clip_path = ClipBox
        /\ Resolved(n) /\ last_ret.how = "hit" /\ last_ret.value = clip_path_cache[n]

\* C4: the cache holds unscaled contours and clip_path_from_styles returns the
\* contour scaled by the device scale factor exactly once, hit or miss
C4_ScaledOnce ==
    /\ \A n \in Nodes : clip_path_cache[n].some =>
           clip_path_cache[n].len = tree[clip_path_cache[n].node].width
    /\ result.path.some =>
           result.path.len = scale * tree[result.path.node].width

\* at a scale above 1 an element was resolved on the miss path ...
C4_WitnessMiss ==
    \E n \in Nodes :
        /\ scale > 1 /\ Resolved(n) /\ result.path.some /\ last_ret.how = "success"

\* ... and an element was resolved on the hit path
C4_Witness ==
    \E n \in Nodes :
        /\ scale > 1 /\ Resolved(n) /\ result.path.some /\ last_ret.how = "hit"
        /\ result.path.len = scale * clip_path_cache[n].len

\* the url() of n names no element, or an element without a resolved style
Unresolvable(n) ==
    /\ tree[n].has_style
    /\ tree[n].clip_path.tag = "Url"
    /\ LET t == get_element_by_id(tree[n].clip_path.fragment) IN
       t = 0 \/ ~tree[t].has_style

\* C5: an unresolvable url() yields no clip, no cache entry, and a back-reference of none
C5_UnresolvableUrl ==
    \A n \in Nodes : Unresolvable(n) =>
        /\ ~clip_path_cache[n].some
        /\ (Returned(n) => /\ ~last_ret.value.some
                           /\ last_ret.how = "failure"
                           /\ cached_clip_path[n] = None)
        /\ (Resolved(n) => ~result.path.some)

\* an element with a url() to an unstyled element was resolved
C5_WitnessUnstyled ==
    \E n \in Nodes :
        /\ Unresolvable(n) /\ get_element_by_id(tree[n].clip_path.fragment) # 0
        /\ Resolved(n) /\ Returned(n)

\* an element that carried a back-reference from an earlier frame and whose url()
\* names no element was resolved
C5_Witness ==
    \E n \in Nodes :
        /\ Unresolvable(n) /\ get_element_by_id(tree[n].clip_path.fragment) = 0
        /\ Resolved(n) /\ Returned(n)
        /\ tree[n].stale /\ cached_clip_path[n] = None

\* C6: when a references b by url(), b is not on the chain and b resolves to a
\* contour P, a resolves to the same shared contour and both are cached as P
C6_UrlAliasing ==
    \A a, b \in Nodes :
        (RefersTo(a, b) /\ a # b /\ Returned(a) /\ last_ret.how # "visited") =>
            /\ last_ret.value.some <=> clip_path_cache[b].some
            /\ last_ret.value.some =>
                  /\ last_ret.value = clip_path_cache[b]
                  /\ clip_path_cache[a] = clip_path_cache[b]

\* a was resolved through b, b computing its shape on the way
C6_Witness ==
    \E a, b \in Nodes :
        /\ a # b /\ RefersTo(a, b) /\ tree[b].clip_path = ClipShape
        /\ Resolved(a) /\ last_ret.how = "success"
        /\ clip_path_cache[a] = clip_path_cache[b] /\ clip_path_cache[a].node = b
        /\ calls[b] = 1 /\ calls[a] = 0

\* ---------------------------------------------------------------- the paint pass
ChildrenOf(n) ==
    {tree[n].neg_z[i] : i \in DOMAIN tree[n].neg_z}
    \cup {tree[n].paint_children[i] : i \in DOMAIN tree[n].paint_children}
    \cup {tree[n].pos_z[i] : i \in DOMAIN tree[n].pos_z}
IsChild(c, n) == c \in ChildrenOf(n)
ParentOf(c) ==
    LET parents == {n \in Nodes : IsChild(c, n)}
    IN IF parents = {} THEN 0 ELSE CHOOSE n \in parents : TRUE

RECURSIVE Subtree(_)
Subtree(n) == {n} \cup UNION {Subtree(c) : c \in ChildrenOf(n)}

\* the y of the element's box: the location handed down by its ancestors plus its own
RECURSIVE BoxY(_)
BoxYBelow(n, parent) ==
    IF parent = 0 THEN tree[n].y - view.scroll_y
    ELSE BoxY(parent) - tree[parent].scroll_y + tree[n].hoisted_y + tree[n].y
BoxY(n) == BoxYBelow(n, ParentOf(n))

Extent(n) == IF tree[n].content_height > tree[n].height THEN tree[n].content_height
             ELSE tree[n].height
OutsideViewport(n) ==
    \E y \in {BoxY(n)} :
        \/ y * scale > ViewportHeight
        \/ (y + Extent(n)) * scale < 0

\* the six conditions under which an element is not drawn
SkipCondition(n) ==
    \/ tree[n].display = "None"
    \/ ~tree[n].has_style
    \/ (tree[n].local_name = "input" /\ tree[n].type_attr = "hidden")
    \/ tree[n].visibility # "Visible"
    \/ tree[n].opacity = 0
    \/ OutsideViewport(n)

Traced(n, op) == \E i \in DOMAIN trace : trace[i].node = n /\ trace[i].op = op
Drawn(n) == Traced(n, "draw_children")
Layered(n) == Traced(n, "push_layer")
Done == painting = "done"

\* C7: for an element that meets a skip condition render_element issues nothing and
\* renders none of its descendants
C7_SkippedDrawNothing ==
    \A n \in Nodes : SkipCondition(n) =>
        \A m \in Subtree(n) : \A i \in DOMAIN trace :
            trace[i].node = m => trace[i] = Call(n, "render_node")

\* the pass is over; an element below the viewport, with a child, was handed to
\* render_node by its drawn parent
C7_Witness ==
    \E n \in Nodes :
        /\ Done /\ ParentOf(n) # 0 /\ Drawn(ParentOf(n))
        /\ ChildrenOf(n) # {}
        /\ BoxY(n) * scale > ViewportHeight
        /\ Traced(n, "render_node")

\* the element's clip-path resolves to a contour
ClipResolves(n) == ChainEnd(n, {}) \in {"Box", "Shape"}

\* C8 as stated: a drawn element gets a layer iff it has non-visible overflow, is a
\* raster or SVG image, has opacity below 1 or has a resolved clip-path
C8_LayerIffAsStated ==
    \A n \in Nodes : Drawn(n) =>
        (Layered(n) <=>
            \/ tree[n].overflow_x # "Visible"
            \/ tree[n].overflow_y # "Visible"
            \/ tree[n].image \in {"raster", "svg"}
            \/ tree[n].opacity < 100
            \/ ClipResolves(n))

\* C8 amended: a drawn element gets a layer iff it has non-visible overflow, is a
\* raster image, has opacity below 1 or has a resolved clip-path
C8_LayerIff ==
    \A n \in Nodes : Drawn(n) =>
        (Layered(n) <=>
            \/ tree[n].overflow_x # "Visible"
            \/ tree[n].overflow_y # "Visible"
            \/ tree[n].image = "raster"
            \/ tree[n].opacity < 100
            \/ ClipResolves(n))

\* an SVG image was drawn without a layer, and the pass is over
C8_Witness ==
    \E n \in Nodes :
        /\ Done /\ Drawn(n) /\ ~Layered(n) /\ tree[n].image = "svg"

\* an element was drawn in a layer for its clip-path alone
C8_WitnessClip ==
    \E n \in Nodes :
        /\ Done /\ Drawn(n) /\ Layered(n) /\ ~should_clip(n) /\ ~has_opacity(n)
        /\ tree[n].clip_path.tag = "Url"

\* the order C9 states for the sub-draws of one element
C9_Order ==
    <<"draw_outline", "draw_outset_box_shadow", "draw_background",
      "draw_border_edge_top", "draw_border_edge_right", "draw_border_edge_bottom",
      "draw_border_edge_left", "draw_inset_box_shadow", "stroke_devtools",
      "apply_scroll_offset", "draw_image", "draw_svg", "draw_canvas", "draw_input",
      "draw_text_input_text", "draw_inline_layout", "draw_marker", "draw_children">>

\* what render_element issued for n itself, in order
OwnDraws(n) ==
    LET Own(e) == e.node = n /\ e.op \notin {"render_node", "push_layer", "pop_layer"}
    IN SelectSeq(trace, Own)

\* C9: the sub-draws of a drawn element come in the fixed order, the children last,
\* and nothing of a child precedes the last of its parent's own sub-draws
C9_DrawOrder ==
    /\ \A n \in Nodes : Traced(n, "draw_outline") =>
          OwnDraws(n) = [i \in DOMAIN C9_Order |-> Call(n, C9_Order[i])]
    /\ \A n \in Nodes : \A c \in ChildrenOf(n) :
          LET Either(e) == e = Call(n, "draw_children") \/ e.node = c
              both == SelectSeq(trace, Either)
          IN both # <<>> => Head(both).node = n

\* a drawn child of a drawn parent
C9_Witness ==
    \E n, c \in Nodes :
        /\ Done /\ IsChild(c, n) /\ Drawn(n) /\ Drawn(c) /\ ChildrenOf(c) # {}

\* the children of n handed to render_node so far, in order
Visits(n) ==
    LET Visit(e) == e.op = "render_node" /\ IsChild(e.node, n)
        v == SelectSeq(trace, Visit)
    IN [i \in DOMAIN v |-> v[i].node]

Rank(n, c) ==
    IF \E i \in DOMAIN tree[n].neg_z : tree[n].neg_z[i] = c THEN 1
    ELSE IF \E i \in DOMAIN tree[n].paint_children : tree[n].paint_children[i] = c THEN 2
    ELSE 3
IndexIn(seq, c) == CHOOSE i \in DOMAIN seq : seq[i] = c

\* C10: the negative z-index children are rendered first, then the normal-flow
\* children in stored order, then the positive z-index children
C10_ChildrenOrder ==
    \A n \in Nodes : \A v \in {Visits(n)} :
        /\ \A i, j \in DOMAIN v : i < j =>
              /\ Rank(n, v[i]) <= Rank(n, v[j])
              /\ v[i] # v[j]
              /\ (Rank(n, v[i]) = 2 /\ Rank(n, v[j]) = 2 =>
                    IndexIn(tree[n].paint_children, v[i]) < IndexIn(tree[n].paint_children, v[j]))
        /\ (Done /\ Drawn(n) => {v[i] : i \in DOMAIN v} = ChildrenOf(n))

\* the root rendered a negative z-index child with a higher id before a positive one
C10_Witness ==
    \E a, b \in Nodes :
        /\ Done /\ a > b
        /\ Rank(1, a) = 1 /\ IsChild(a, 1) /\ Rank(1, b) = 3 /\ IsChild(b, 1)
        /\ Visits(1) = <<a, b>>

\* the root rendered its normal-flow children in stored, descending order
C10_WitnessStored ==
    \E a, b \in Nodes :
        /\ Done /\ a > b /\ tree[1].paint_children = <<a, b>> /\ Visits(1) = <<a, b>>

\* ---------------------------------------------------------------- layers
\* the elements whose layer is open after the first k entries of the trace, innermost
\* last; <<0>> once a pop met no layer or the layer of another element
RECURSIVE OpenLayers(_)
OpenLayers(k) ==
    IF k = 0 THEN <<>>
    ELSE LET open == OpenLayers(k - 1)
             e == trace[k]
         IN IF open = <<0>> THEN open
            ELSE IF e.op = "push_layer" THEN Append(open, e.node)
            ELSE IF e.op = "pop_layer"
                 THEN IF open # <<>> /\ open[Len(open)] = e.node
                      THEN SubSeq(open, 1, Len(open) - 1)
                      ELSE <<0>>
            ELSE open

Count(n, op) == Cardinality({i \in DOMAIN trace : trace[i].node = n /\ trace[i].op = op})

\* a layer was pushed or popped by the last step, or the pass is over
LayerStep ==
    \/ Done
    \/ trace # <<>> /\ trace[Len(trace)].op \in {"push_layer", "pop_layer"}

\* C11: pushes and pops of layers nest along the walk, each layer is popped once,
\* after every draw of its element and of the element's descendants, and no layer is
\* open when paint_scene returns
C11_LayersBalanced ==
    LayerStep =>
        LET open == OpenLayers(Len(trace))
        IN /\ open # <<0>>
           /\ Done => open = <<>>
           /\ \A n \in Nodes :
                 /\ Count(n, "pop_layer") <= Count(n, "push_layer")
                 /\ Count(n, "push_layer") <= 1
                 /\ Traced(n, "pop_layer") =>
                       LET below == Subtree(n)
                           Below(e) == e.node \in below
                           all == SelectSeq(trace, Below)
                       IN all[Len(all)] = Call(n, "pop_layer")
                 /\ (Done /\ Layered(n)) => Traced(n, "pop_layer")

\* the pass is over; an element drawn in a layer had a child that was skipped and a
\* child that was drawn
C11_Witness ==
    \E n, c, d \in Nodes :
        /\ Done /\ Layered(n) /\ Traced(n, "pop_layer")
        /\ IsChild(c, n) /\ Traced(c, "render_node") /\ ~Drawn(c) /\ SkipCondition(c)
        /\ IsChild(d, n) /\ Drawn(d)

\* the pass is over; a layer was opened and closed inside another one
C11_WitnessNested ==
    \E n, c \in Nodes :
        /\ Done /\ IsChild(c, n) /\ Layered(n) /\ Layered(c)
        /\ Traced(n, "pop_layer") /\ Traced(c, "pop_layer")

\* ---------------------------------------------------------------- panics
\* C12 as stated: a paint pass never panics, whatever the elements hold
C12_NeverPanics == painting # "panicked"

\* the pass went through an element with a laid-out text input and one that is an
\* inline root with its inline layout, and ended
C12_WellFormedDrawn ==
    \E n \in Nodes :
        /\ Done /\ Drawn(n)
        /\ (tree[n].text_input = "laid_out" \/ (tree[n].inline_root /\ tree[n].inline_layout_data))

\* ---------------------------------------------------------------- shape functions
Returned_(fn) == shape_call.fn = fn /\ shape_ret.tag = "returned"
Inside(c, r) == r.x0 <= c.x /\ c.x <= r.x1 /\ r.y0 <= c.y /\ c.y <= r.y1
EdgeDistances(c, r) == {c.x - r.x0, r.x1 - c.x, c.y - r.y0, r.y1 - c.y}

\* C13: for a center inside the reference rectangle, closest-side is the least and
\* farthest-side the greatest of the four distances from the center to the edges
C13_SideRadius ==
    (Returned_("resolve_shape_radius")
       /\ Inside(shape_call.center, shape_call.reference_rect)) =>
        LET d == EdgeDistances(shape_call.center, shape_call.reference_rect) IN
        /\ shape_call.radius = ClosestSide =>
              (shape_ret.value \in d /\ \A e \in d : shape_ret.value <= e)
        /\ shape_call.radius = FarthestSide =>
              (shape_ret.value \in d /\ \A e \in d : shape_ret.value >= e)

\* closest-side returned 0 for a center on the top edge that is nearer to the left
\* and right edges than to the bottom one
C13_Witness ==
    /\ Returned_("resolve_shape_radius")
    /\ shape_call.radius = ClosestSide
    /\ shape_call.center.y = shape_call.reference_rect.y0
    /\ shape_call.center.x > shape_call.reference_rect.x0
    /\ shape_call.center.x < shape_call.reference_rect.x1
    /\ height(shape_call.reference_rect) > width(shape_call.reference_rect)
    /\ shape_ret.value = 0

\* farthest-side returned the distance to the bottom edge
C13_WitnessFarthest ==
    /\ Returned_("resolve_shape_radius")
    /\ shape_call.radius = FarthestSide
    /\ Inside(shape_call.center, shape_call.reference_rect)
    /\ shape_ret.value = shape_call.reference_rect.y1 - shape_call.center.y
    /\ shape_ret.value > shape_call.reference_rect.x1 - shape_call.center.x
    /\ shape_ret.value > shape_call.center.x - shape_call.reference_rect.x0

\* C17: a percentage resolves to percentage times axis, so to 0 on an axis of 0, and
\* a length to its px value whatever the axis
C17_ResolveUnpacked ==
    Returned_("resolve_unpacked_value") =>
        /\ shape_call.unpacked.tag = "Percentage" =>
              /\ shape_ret.value * One = shape_call.unpacked.pct * shape_call.axis
              /\ (shape_call.axis = 0 => shape_ret.value = 0)
        /\ shape_call.unpacked.tag = "Length" => shape_ret.value = shape_call.unpacked.px

\* 50% of 200 resolved to 100
C17_Witness ==
    /\ Returned_("resolve_unpacked_value")
    /\ shape_call.unpacked = Percentage(One \div 2)
    /\ shape_call.axis = 200 * One
    /\ shape_ret.value = 100 * One

\* a non-zero percentage resolved to 0 on an axis of 0
C17_WitnessZeroAxis ==
    /\ Returned_("resolve_unpacked_value")
    /\ shape_call.unpacked.tag = "Percentage" /\ shape_call.unpacked.pct > 0
    /\ shape_call.axis = 0 /\ shape_ret.value = 0

\* C18: an auto position is the exact center of the reference rectangle, wherever
\* the rectangle's origin is
C18_AutoPosition ==
    (Returned_("resolve_shape_position") /\ shape_call.position = Auto) =>
        LET r == shape_call.reference_rect IN
        /\ 2 * shape_ret.value.x = r.x0 + r.x1
        /\ 2 * shape_ret.value.y = r.y0 + r.y1

\* the center of a rectangle whose origin is not (0, 0) and whose width is odd
C18_Witness ==
    /\ Returned_("resolve_shape_position") /\ shape_call.position = Auto
    /\ shape_call.reference_rect.x0 > 0 /\ shape_call.reference_rect.y0 > 0
    /\ width(shape_call.reference_rect) = 3 * One
    /\ shape_ret.value.x = shape_call.reference_rect.x0 + (3 * One) \div 2

\* the whole-px length of the offset (dx, dy), when it has one
WholeLengths(dx, dy) == {k * One : k \in 0..20} \cap {d \in {k * One : k \in 0..20} :
                                                       d * d = dx * dx + dy * dy}

\* C14: expand_polygon_point returns the point unchanged for a margin <= 0 or a point
\* on the center; otherwise the point on the ray from the center through it, at the
\* point's distance plus the margin
C14_ExpandPoint ==
    Returned_("expand_polygon_point") =>
        LET p == shape_call.point
            c == shape_call.bounding_box_center
            m == shape_call.margin
            q == shape_ret.value
            dx == p.x - c.x
            dy == p.y - c.y
            ex == q.x - c.x
            ey == q.y - c.y
        IN IF m <= 0 \/ p = c THEN q = p
           ELSE \A d \in WholeLengths(dx, dy) :
                   /\ ex * ex + ey * ey = (d + m) * (d + m)
                   /\ dx * ey = dy * ex
                   /\ dx * ex + dy * ey > 0

\* a point 3 right and 4 below the center came back 6 right and 8 below it
C14_Witness ==
    /\ Returned_("expand_polygon_point")
    /\ shape_call.point.x - shape_call.bounding_box_center.x = 3 * One
    /\ shape_call.point.y - shape_call.bounding_box_center.y = 4 * One
    /\ shape_call.margin = 5 * One
    /\ WholeLengths(3 * One, 4 * One) = {5 * One}
    /\ shape_ret.value.x - shape_call.bounding_box_center.x = 6 * One
    /\ shape_ret.value.y - shape_call.bounding_box_center.y = 8 * One

\* a point on the center came back unchanged under a positive margin
C14_WitnessCenter ==
    /\ Returned_("expand_polygon_point")
    /\ shape_call.point = shape_call.bounding_box_center
    /\ shape_call.margin > 0
    /\ shape_ret.value = shape_call.point

\* the declaration lists whose text is the style attribute of the call
DeclsOf(attr) == {ds \in DeclLists : attr = Attr(StyleText(ds))}
\* the declarations of ds that are named shape-margin, in order
Named(ds) == SelectSeq(ds, LAMBDA d : d.colon /\ d.name \in ShapeMarginNames)
Unpadded(t) == IF t # <<>> /\ Head(t) = " " THEN Tail(t) ELSE t

\* C15: parse_shape_margin_value returns the amount of a px value or a unitless number
\* and percentage times the reference width, none of them below 0, and none for any
\* other first token; resolve_shape_margin_for_node yields 0 for such a value, for a
\* style without a shape-margin declaration and for an element without style attribute
C15_ShapeMargin ==
    /\ Returned_("parse_shape_margin_value") =>
          LET t == shape_call.raw_value
              w == width(shape_call.reference_rect)
          IN /\ \A n \in MarginNumbers :
                   /\ t \in PxTexts(n) \cup UnitlessTexts(n) =>
                         shape_ret.value = SomeMargin(IF n < 0 THEN 0 ELSE n * One)
                   /\ t \in PercentTexts(n) =>
                         shape_ret.value = SomeMargin(IF n < 0 THEN 0 ELSE (w * n) \div 100)
             /\ t \in OtherTexts => shape_ret.value = NoMargin
    /\ Returned_("resolve_shape_margin_for_node") =>
          /\ shape_call.style_attr = NoAttr => shape_ret.value = 0
          /\ \A ds \in DeclsOf(shape_call.style_attr) :
                /\ Named(ds) = <<>> => shape_ret.value = 0
                /\ Named(ds) # <<>> /\ Unpadded(Head(Named(ds)).value) \in OtherTexts =>
                      shape_ret.value = 0

\* "10%" against a rectangle 200 wide came back as 20
C15_Witness ==
    /\ Returned_("parse_shape_margin_value")
    /\ shape_call.raw_value \in PercentTexts(10)
    /\ width(shape_call.reference_rect) = 200 * One
    /\ shape_ret.value = SomeMargin(20 * One)

\* a negative px amount came back as 0
C15_WitnessClamped ==
    /\ Returned_("parse_shape_margin_value")
    /\ shape_call.raw_value \in PxTexts(0 - 5)
    /\ shape_ret.value = SomeMargin(0)

\* a value in em came back as none, and a style whose shape-margin is such a value as 0
C15_WitnessOtherUnit ==
    \/ /\ Returned_("parse_shape_margin_value")
       /\ \E n \in MarginNumbers : shape_call.raw_value = NumberText(n) \o <<"e", "m">>
       /\ shape_ret.value = NoMargin
    \/ /\ Returned_("resolve_shape_margin_for_node")
       /\ \E ds \in DeclsOf(shape_call.style_attr) :
             Named(ds) # <<>> /\ Head(Named(ds)).value = <<"2", "e", "m">>
       /\ shape_ret.value = 0

\* a style with declarations, none of them shape-margin, came back as 0
C15_WitnessNoDeclaration ==
    /\ Returned_("resolve_shape_margin_for_node")
    /\ \E ds \in DeclsOf(shape_call.style_attr) : Len(ds) = 2 /\ Named(ds) = <<>>
    /\ shape_ret.value = 0

Abs(x) == IF x < 0 THEN 0 - x ELSE x
\* a quarter turn, read as radians or as degrees, within one hundredth of it
QuarterTurn(a) ==
    \/ Abs(Abs(a) - HalfPi) * 100 <= HalfPi
    \/ Abs(Abs(a) - 90 * One) * 100 <= 90 * One
QuarterArcCall ==
    [fn |-> "stylo_to_kurbo_arc", start |-> Pt(One, 0), end |-> Pt(0, One),
     radii |-> Pt(One, One), arc_sweep |-> "Cw", arc_size |-> "Small", x_axis_rotation |-> 0]

\* C16: the clockwise small quarter-circle arc from (1,0) to (0,1) with radii 1 and no
\* rotation converts to an arc with center (0,0) and a sweep angle of a quarter turn
C16_QuarterArc ==
    (shape_call = QuarterArcCall /\ shape_ret.tag = "returned") =>
        /\ shape_ret.value.center = Pt(0, 0)
        /\ QuarterTurn(shape_ret.value.sweep_angle)

\* the bounds of a rect-type shape before ordering: the reference rectangle moved in
\* by the edge offsets and out by the shape-margin
Offset(v, axis) == v.px + (axis * v.pct) \div One
RawBounds(c) ==
    LET rr == c.reference_rect
        e == c.shape.rect.rect
    IN [x0 |-> rr.x0 + Offset(e[4], rr.x1 - rr.x0) - c.shape_margin,
        y0 |-> rr.y0 + Offset(e[1], rr.y1 - rr.y0) - c.shape_margin,
        x1 |-> rr.x1 - Offset(e[2], rr.x1 - rr.x0) + c.shape_margin,
        y1 |-> rr.y1 - Offset(e[3], rr.y1 - rr.y0) + c.shape_margin]

\* basic_shape_to_path has returned for a rect-type shape
RectReturned == Returned_("basic_shape_to_path") /\ shape_call.shape.variant = "Rect"

\* C19: the bounds a rect-type shape hands to path construction are in order on each
\* axis, x0 <= x1 and y0 <= y1; they are the raw bounds, swapped on an axis where
\* inset and margin left them inverted
C19_BoundsSorted ==
    RectReturned =>
        LET raw == RawBounds(shape_call)
            p == shape_ret.value.path
        IN /\ p.x0 <= p.x1 /\ p.y0 <= p.y1
           /\ <<p.x0, p.x1>> = IF raw.x0 <= raw.x1 THEN <<raw.x0, raw.x1>> ELSE <<raw.x1, raw.x0>>
           /\ <<p.y0, p.y1>> = IF raw.y0 <= raw.y1 THEN <<raw.y0, raw.y1>> ELSE <<raw.y1, raw.y0>>

\* a shape whose right edge came out left of its left edge was built with the two swapped
C19_Witness ==
    /\ RectReturned
    /\ RawBounds(shape_call).x0 > RawBounds(shape_call).x1
    /\ RawBounds(shape_call).y0 < RawBounds(shape_call).y1
    /\ shape_ret.value.path.x0 = RawBounds(shape_call).x1
    /\ shape_ret.value.path.x1 = RawBounds(shape_call).x0

\* a shape inverted on the y axis by a negative margin alone
C19_WitnessMargin ==
    /\ RectReturned
    /\ shape_call.shape_margin < 0
    /\ \A i \in 1..4 : shape_call.shape.rect.rect[i] = Length(0)
    /\ RawBounds(shape_call).y0 > RawBounds(shape_call).y1
    /\ shape_ret.value.path.y0 < shape_ret.value.path.y1

\* the rectangle of a frame a CSS box keyword names, and the contour of that rectangle
OwnBox(frame, geometry_box) ==
    CASE geometry_box = ShapeBox("MarginBox") -> <<frame.margin_box, margin_box_path(frame)>>
      [] geometry_box = ShapeBox("BorderBox") -> <<frame.border_box, border_box_path(frame)>>
      [] geometry_box = ShapeBox("PaddingBox") -> <<frame.padding_box, padding_box_path(frame)>>
      [] geometry_box = ShapeBox("ContentBox") -> <<frame.content_box, content_box_path(frame)>>
      [] OTHER -> <<frame.border_box, border_box_path(frame)>>
FourDistinct(frame) ==
    Cardinality({frame.margin_box, frame.border_box, frame.padding_box, frame.content_box}) = 4

\* C20: for fill-box, stroke-box, view-box and the element-dependent default the clip
\* contour and the reference rectangle are the border box's; margin-box, border-box,
\* padding-box and content-box each give their own rectangle and its contour
C20_GeometryBox ==
    /\ Returned_("reference_rect_for_geometry_box") =>
          shape_ret.value = OwnBox(shape_call.frame, shape_call.geometry_box)[1]
    /\ Returned_("clip_path_for_geometry_box") =>
          shape_ret.value = OwnBox(shape_call.frame, shape_call.geometry_box)[2]

\* fill-box on a frame of four different rectangles gave the border box
C20_Witness ==
    /\ Returned_("reference_rect_for_geometry_box")
    /\ shape_call.geometry_box = FillBox
    /\ FourDistinct(shape_call.frame)
    /\ shape_ret.value = shape_call.frame.border_box

\* margin-box on such a frame gave the contour of the margin box
C20_WitnessMargin ==
    /\ Returned_("clip_path_for_geometry_box")
    /\ shape_call.geometry_box = ShapeBox("MarginBox")
    /\ FourDistinct(shape_call.frame)
    /\ shape_ret.value = margin_box_path(shape_call.frame)

\* ---------------------------------------------------------------- the visited set
\* the elements whose resolution is in progress: entered past visited.insert and not
\* yet past visited.remove
InProgress == {stack[i].node : i \in {j \in DOMAIN stack : stack[j].pc # "enter"}}

\* C22: the visited set holds exactly the elements whose resolution is in progress on
\* the call chain, and is empty when the top-level call has returned
C22_VisitedInProgress ==
    /\ visited = InProgress
    /\ stack = <<>> => visited = {}

\* two elements refer by url() to a third; each top-level call resolved through it
C22_Witness ==
    \E a, b, c \in Nodes :
        /\ a # b /\ a # c /\ b # c
        /\ tree[a].clip_path = ClipUrl(c) /\ tree[b].clip_path = ClipUrl(c)
        /\ clip_path_cache[a].some /\ clip_path_cache[a].node = c
        /\ clip_path_cache[b].some /\ clip_path_cache[b].node = c
        /\ stack = <<>> /\ visited = {}

\* a chain of two url() references is in progress, both elements in the set
C22_WitnessChain ==
    /\ Len(stack) = 3
    /\ Cardinality(visited) = 2
    /\ stack[3].pc = "enter"

\* ---------------------------------------------------------------- the path builder
\* the locals of commands_to_bez_path after the first k commands of the call
After(k) == commands_to_bez_path(SubSeq(shape_call.cmds, 1, k))
\* the start of the subpath after the first k commands: the target of the latest Move,
\* (0,0) when there was none
StartAfter(k) ==
    LET moves == {j \in 1..k : shape_call.cmds[j].cmd = "Move"}
    IN IF moves = {} THEN Pt(0, 0)
       ELSE LET j == CHOOSE i \in moves : \A h \in moves : h <= i
                m == shape_call.cmds[j].point
            IN IF m.by_to = "to" THEN Pt(m.x, m.y)
               ELSE Pt(After(j - 1).current_point.x + m.x, After(j - 1).current_point.y + m.y)
LastEl(k) == After(k).path[Len(After(k).path)]

\* C25: after a Close the current point is the start of the current subpath, a
\* relative command that follows is resolved from it, and the subpath start changes
\* on Move only
C25_CloseReturnsToStart ==
    Returned_("commands_to_bez_path") =>
        \A k \in DOMAIN shape_call.cmds :
            LET c == shape_call.cmds[k] IN
            /\ c.cmd = "Close" => After(k).current_point = StartAfter(k)
            /\ (k > 1 /\ shape_call.cmds[k - 1].cmd = "Close" /\ c.cmd = "Line"
                  /\ c.point.by_to = "by") =>
                  LastEl(k) = LineTo(Pt(StartAfter(k).x + c.point.x, StartAfter(k).y + c.point.y))
            /\ After(k).subpath_start # After(k - 1).subpath_start => c.cmd = "Move"
            /\ After(k).subpath_start = StartAfter(k)

\* Move to (1,1), a line away from it, Close: the current point is (1,1) again
C25_Witness ==
    /\ Returned_("commands_to_bez_path")
    /\ Len(shape_call.cmds) = 3
    /\ shape_call.cmds[1] = MoveCmd(ToPosition(One, One))
    /\ shape_call.cmds[2].cmd = "Line"
    /\ shape_call.cmds[3] = CloseCmd
    /\ After(2).current_point # Pt(One, One)
    /\ shape_ret.value.current_point = Pt(One, One)

\* a line, Close without any Move, then a relative line: it starts from (0,0)
C25_WitnessNoMove ==
    /\ Returned_("commands_to_bez_path")
    /\ Len(shape_call.cmds) = 3
    /\ shape_call.cmds[1].cmd = "HLine"
    /\ shape_call.cmds[2] = CloseCmd
    /\ shape_call.cmds[3] = LineCmd(ByCoordinate(0, One))
    /\ LastEl(3) = LineTo(Pt(0, One))

Reflected(control, center) == Pt(center.x + (center.x - control.x), center.y + (center.y - control.y))

\* C26: SmoothQuad takes as control point the previous quadratic control point
\* reflected through the current point when the command before it was QuadCurve or
\* SmoothQuad, and the current point otherwise; SmoothCubic likewise with the second
\* control point of a preceding CubicCurve or SmoothCubic; Move, Line, HLine, VLine,
\* Arc and Close clear both remembered control points
C26_SmoothControls ==
    Returned_("commands_to_bez_path") =>
        \A k \in DOMAIN shape_call.cmds :
            LET c == shape_call.cmds[k]
                before == IF k > 1 THEN shape_call.cmds[k - 1].cmd ELSE "none"
                cur == After(k - 1).current_point
            IN /\ c.cmd = "SmoothQuad" =>
                     LastEl(k).c1 = IF before \in {"QuadCurve", "SmoothQuad"}
                                    THEN Reflected(LastEl(k - 1).c1, cur) ELSE cur
               /\ c.cmd = "SmoothCubic" =>
                     LastEl(k).c1 = IF before \in {"CubicCurve", "SmoothCubic"}
                                    THEN Reflected(LastEl(k - 1).c2, cur) ELSE cur
               /\ c.cmd \in {"Move", "Line", "HLine", "VLine", "Arc", "Close"} =>
                     /\ After(k).last_quad_ctrl = NoPoint
                     /\ After(k).last_cubic_ctrl = NoPoint

\* QuadCurve then SmoothQuad: the control point is the reflection, not the current point
C26_Witness ==
    /\ Returned_("commands_to_bez_path")
    /\ Len(shape_call.cmds) = 2
    /\ shape_call.cmds[1].cmd = "QuadCurve"
    /\ shape_call.cmds[2].cmd = "SmoothQuad"
    /\ LastEl(2).c1 = Reflected(shape_call.cmds[1].control1, After(1).current_point)
    /\ LastEl(2).c1 # After(1).current_point

\* QuadCurve, a line, SmoothQuad: the control point is the current point
C26_WitnessCleared ==
    /\ Returned_("commands_to_bez_path")
    /\ Len(shape_call.cmds) = 3
    /\ shape_call.cmds[1].cmd = "QuadCurve"
    /\ shape_call.cmds[2].cmd = "Line"
    /\ shape_call.cmds[3].cmd = "SmoothQuad"
    /\ LastEl(3).c1 = After(2).current_point
    /\ LastEl(3).c1 # Reflected(shape_call.cmds[1].control1, After(2).current_point)

\* CubicCurve then SmoothCubic: the first control point is the reflection
C26_WitnessCubic ==
    /\ Returned_("commands_to_bez_path")
    /\ Len(shape_call.cmds) = 2
    /\ shape_call.cmds[1].cmd = "CubicCurve"
    /\ shape_call.cmds[2].cmd = "SmoothCubic"
    /\ LastEl(2).c1 = Reflected(shape_call.cmds[1].control2, After(1).current_point)
    /\ LastEl(2).c1 # After(1).current_point

\* ---------------------------------------------------------------- path() and shape()
\* the points of a path element, in order
ElPoints(e) ==
    CASE e.el \in {"MoveTo", "LineTo"} -> <<e.p>>
      [] e.el = "QuadTo" -> <<e.c1, e.p>>
      [] e.el = "CurveTo" -> <<e.c1, e.c2, e.p>>
      [] e.el = "ArcTo" -> <<e.start, e.p>>
      [] e.el = "ClosePath" -> <<>>
\* the path element emitted for the k-th command: one element per command, after the
\* MoveTo that starts a path whose first command is not a Move
ElementOf(out, cmds, k) == out[IF cmds[1].cmd = "Move" THEN k ELSE k + 1]
PathReturned == Returned_("basic_shape_to_path") /\ shape_call.shape.variant = "Path"
ShapeReturned == Returned_("basic_shape_to_path") /\ shape_call.shape.variant = "Shape"

\* C27: for path() every emitted coordinate is the origin of the reference box plus
\* the authored coordinate scaled by the width (x) and height (y) of the box; for
\* shape() every length or percentage is resolved against its axis of the box and
\* every emitted coordinate is the origin plus the resolved coordinate, unscaled
C27_PathAndShape ==
    LET r == shape_call.reference_rect
        w == r.x1 - r.x0
        h == r.y1 - r.y0
        out == shape_ret.value.path
    IN /\ PathReturned =>
             LET cmds == shape_call.shape.path.commands
                 authored == commands_to_bez_path(cmds).path
             IN /\ Len(out) = Len(authored)
                /\ \A i \in DOMAIN out :
                      /\ out[i].el = authored[i].el
                      /\ ElPoints(out[i]) =
                            [j \in DOMAIN ElPoints(authored[i]) |->
                                Pt(r.x0 + (ElPoints(authored[i])[j].x * w) \div One,
                                   r.y0 + (ElPoints(authored[i])[j].y * h) \div One)]
                /\ \A k \in DOMAIN cmds :
                      (cmds[k].cmd \in {"Move", "Line"} /\ cmds[k].point.by_to = "to") =>
                          ElementOf(out, cmds, k).p =
                              Pt(r.x0 + (cmds[k].point.x * w) \div One,
                                 r.y0 + (cmds[k].point.y * h) \div One)
       /\ ShapeReturned =>
             LET cmds == shape_call.shape.shape.commands
             IN \A k \in DOMAIN cmds :
                   /\ (cmds[k].cmd \in {"Move", "Line", "QuadCurve", "SmoothCubic", "Arc"}
                         /\ cmds[k].point.by_to = "to") =>
                         ElementOf(out, cmds, k).p =
                             Pt(r.x0 + Offset(cmds[k].point.x, w), r.y0 + Offset(cmds[k].point.y, h))
                   /\ (k > 1 /\ cmds[k].cmd \in {"Move", "Line"} /\ cmds[k].point.by_to = "by"
                         /\ cmds[k - 1].cmd # "Close") =>
                         ElementOf(out, cmds, k).p =
                             Pt(ElementOf(out, cmds, k - 1).p.x + Offset(cmds[k].point.x, w),
                                ElementOf(out, cmds, k - 1).p.y + Offset(cmds[k].point.y, h))
                   /\ cmds[k].cmd = "QuadCurve" =>
                         ElementOf(out, cmds, k).c1 =
                             Pt(r.x0 + Offset(cmds[k].control1.x, w),
                                r.y0 + Offset(cmds[k].control1.y, h))
                   /\ cmds[k].cmd = "SmoothCubic" =>
                         ElementOf(out, cmds, k).c2 =
                             Pt(r.x0 + Offset(cmds[k].control2.x, w),
                                r.y0 + Offset(cmds[k].control2.y, h))

\* path(): a line to (0.5, 0) in a box 4 wide at (1, 2) was emitted as a line to (3, 2)
C27_Witness ==
    /\ PathReturned
    /\ shape_call.reference_rect = Rect(One, 2 * One, 5 * One, 4 * One)
    /\ shape_call.shape.path.commands = <<MoveCmd(ToPosition(One, One)), LineCmd(ToPosition(Half, 0))>>
    /\ shape_ret.value.path = <<MoveTo(Pt(5 * One, 4 * One)), LineTo(Pt(3 * One, 2 * One))>>

\* shape(): a line to (100%, 2px) in the same box was emitted as a line to (5, 4)
C27_WitnessShape ==
    /\ ShapeReturned
    /\ shape_call.reference_rect = Rect(One, 2 * One, 5 * One, 4 * One)
    /\ shape_call.shape.shape.commands =
          <<MoveCmd(ToPosition(Length(One), Percentage(Half))),
            LineCmd(ToPosition(Percentage(One), Length(2 * One)))>>
    /\ shape_ret.value.path = <<MoveTo(Pt(2 * One, 3 * One)), LineTo(Pt(5 * One, 4 * One))>>

\* ---------------------------------------------------------------- circles and ellipses
Least(S) == CHOOSE x \in S : \A y \in S : x <= y
Greatest(S) == CHOOSE x \in S : \A y \in S : y <= x
\* the radius a shape radius stands for, seen from center c in rectangle r
ResolvedRadius(radius, c, r, axis) ==
    CASE radius.tag = "ClosestSide" -> Least(EdgeDistances(c, r))
      [] radius.tag = "FarthestSide" -> Greatest(EdgeDistances(c, r) \cup {0})
      [] radius.tag = "Length" -> Offset(radius.value, axis)
CircleReturned == Returned_("basic_shape_to_path") /\ shape_call.shape.variant = "Circle"
EllipseReturned == Returned_("basic_shape_to_path") /\ shape_call.shape.variant = "Ellipse"

\* C28: the radius of a circle and each radius of an ellipse handed to contour
\* construction is max(0, resolved radius + shape-margin), each axis of an ellipse by
\* itself; no radius is negative
C28_RadiusClamped ==
    LET r == shape_call.reference_rect
        m == shape_call.shape_margin
        p == shape_ret.value.path
    IN /\ CircleReturned =>
             LET want == ResolvedRadius(shape_call.shape.radius, p.center, r, r.x1 - r.x0) + m
             IN p.radius = (IF want < 0 THEN 0 ELSE want) /\ p.radius >= 0
       /\ EllipseReturned =>
             LET want_x == ResolvedRadius(shape_call.shape.semiaxis_x, p.center, r, r.x1 - r.x0) + m
                 want_y == ResolvedRadius(shape_call.shape.semiaxis_y, p.center, r, r.y1 - r.y0) + m
             IN /\ p.radii.x = (IF want_x < 0 THEN 0 ELSE want_x)
                /\ p.radii.y = (IF want_y < 0 THEN 0 ELSE want_y)
                /\ p.radii.x >= 0 /\ p.radii.y >= 0

\* a circle with closest-side radius whose center lies left of the box: the distance
\* is negative, the radius handed on is 0
C28_Witness ==
    /\ CircleReturned
    /\ shape_call.shape.radius = ClosestSide
    /\ shape_call.shape_margin = 0
    /\ shape_ret.value.path.center.x < shape_call.reference_rect.x0
    /\ Least(EdgeDistances(shape_ret.value.path.center, shape_call.reference_rect)) < 0
    /\ shape_ret.value.path.radius = 0

\* an ellipse whose radii differ, each grown by the margin
C28_WitnessEllipse ==
    /\ EllipseReturned
    /\ shape_call.shape_margin = One
    /\ shape_call.shape.semiaxis_x = RadiusLength(Percentage(Half))
    /\ shape_call.shape.semiaxis_y = RadiusLength(Percentage(Half))
    /\ shape_call.reference_rect = Rect(One, 2 * One, 5 * One, 4 * One)
    /\ shape_ret.value.path.radii = Pt(3 * One, 2 * One)

\* a full turn in the unit angle() returns
FullTurn == 2 * Pi
\* the rule of the sweep flag applied to a naive angle
Normalized(arc_sweep, naive) ==
    IF arc_sweep = "Cw" /\ naive < 0 THEN naive + FullTurn
    ELSE IF arc_sweep = "Ccw" /\ naive > 0 THEN naive - FullTurn
    ELSE naive
\* the angles between two axis points of a circle as angle() returns them
NaiveAngles == {0 - Pi, 0 - HalfPi, 0, HalfPi, Pi}

\* C24: the sweep angle stylo_to_kurbo_arc returns is a naive angle normalized by the
\* sweep flag: a full turn added when the sweep is clockwise and the naive angle is
\* negative, subtracted when it is counter-clockwise and the naive angle positive,
\* the naive angle itself otherwise; the full turn is in the unit of the naive angle
C24_SweepNormalized ==
    Returned_("stylo_to_kurbo_arc") =>
        \E naive \in NaiveAngles :
            shape_ret.value.sweep_angle = Normalized(shape_call.arc_sweep, naive)
\* what the code does instead: a clockwise arc whose naive angle is positive comes out
\* with 360 subtracted from the angle in radians
C24_Reversed ==
    /\ Returned_("stylo_to_kurbo_arc")
    /\ shape_call.arc_sweep = "Cw"
    /\ \E naive \in NaiveAngles :
          naive > 0 /\ shape_ret.value.sweep_angle = naive - 360 * One

\* the rectangle of the geometry box of a clip-path <basic-shape> <geometry-box>
ChosenBox(c) == reference_rect_for_geometry_box(c.frame, c.geometry_box)
PercentMargin(c) ==
    c.style_attr.present /\ \E i \in DOMAIN c.style_attr.text : c.style_attr.text[i] = "%"

\* C23: the contour of a basic shape with a geometry box is the one the builder makes
\* in the rectangle of the chosen box with the shape-margin resolved against that same
\* rectangle; a percentage margin is that fraction of the width of the chosen box
C23_MarginOfChosenBox ==
    Returned_("clip_path_from_styles_inner") =>
        shape_ret.value =
            shape_to_path(shape_call.frame, shape_call.basic_shape, ChosenBox(shape_call),
                          resolve_shape_margin_for_node(shape_call.style_attr,
                                                        ChosenBox(shape_call)))
\* what the code does instead: a circle in the content box grown by a percentage of the
\* width of the border box
C23_MarginOfBorderBox ==
    /\ Returned_("clip_path_from_styles_inner")
    /\ PercentMargin(shape_call)
    /\ shape_call.basic_shape.variant = "Circle"
    /\ shape_call.geometry_box = ShapeBox("ContentBox")
    /\ width(ChosenBox(shape_call)) # width(shape_call.frame.border_box)
    /\ shape_ret.value.path.radius = One + width(shape_call.frame.border_box) \div 10

\* element n is clipped by a basic shape
ShapeClipped(n) == tree[n].clip_path.tag = "Shape"
\* C21: the resolution of an element clipped by a basic shape leaves its dispatch with
\* a contour, whatever the variant and however degenerate the shape or the box; once
\* the element is drawn it has a cache entry and was drawn in a layer
C21_ShapeAlwaysClips ==
    /\ (stack # <<>> /\ Top.pc = "exit" /\ ShapeClipped(Top.node)) => Top.path.some
    /\ \A n \in Nodes :
          (ShapeClipped(n) /\ Drawn(n)) => Layered(n) /\ clip_path_cache[n].some
C21_Witness ==
    \E n \in Nodes :
        /\ ShapeClipped(n) /\ tree[n].clip_path.basic_shape = PolygonShape(<<>>)
        /\ tree[n].width = 0
        /\ Drawn(n) /\ Layered(n) /\ clip_path_cache[n].some
C21_WitnessNoCommand ==
    \E n \in Nodes :
        /\ ShapeClipped(n) /\ tree[n].clip_path.basic_shape \in {PathFunction(<<>>), ShapeFunction(<<>>)}
        /\ Drawn(n) /\ Layered(n) /\ clip_path_cache[n].some
C21_WitnessNoRadius ==
    \E n \in Nodes :
        /\ ShapeClipped(n)
        /\ tree[n].clip_path.basic_shape = CircleShape(Auto, RadiusLength(Length(0)))
        /\ Drawn(n) /\ Layered(n) /\ clip_path_cache[n].some

\* the element the url() chain of n ends at, when the clip-path of n resolves
RECURSIVE ChainEndNode(_)
ChainEndNode(n) ==
    IF tree[n].clip_path.tag # "Url" THEN n
    ELSE ChainEndNode(get_element_by_id(tree[n].clip_path.fragment))
LayerClip(n) == trace[CHOOSE i \in DOMAIN trace : trace[i].node = n /\ trace[i].op = "push_layer"].clip

\* C29: the clip of the layer of an element whose clip-path resolves to no clip is
\* the padding-box contour of the element at the scale of the pass; the clip of the
\* layer of an element whose clip-path resolves is the contour of the element the
\* chain ends at, scaled: the cached contour itself when the scale is 1
C29_LayerClip ==
    \A n \in Nodes : Layered(n) =>
        \A clip \in {LayerClip(n)} :
            IF ClipResolves(n)
            THEN \A end \in {ChainEndNode(n)} :
                    /\ clip.kind = (IF tree[end].clip_path.tag = "Box" THEN "box" ELSE "shape")
                    /\ clip.node = end
                    /\ clip.len = tree[end].width * scale
                    /\ scale = 1 => clip = clip_path_cache[end]
            ELSE /\ clip.kind = "padding_box"
                 /\ clip.node = n
                 /\ clip.len = tree[n].inner_w * scale
\* a translucent element without clip-path was drawn in a layer clipped to its padding box
C29_Witness ==
    \E n \in Nodes :
        /\ Layered(n) /\ tree[n].clip_path = ClipNone /\ tree[n].opacity < 100
        /\ LayerClip(n).kind = "padding_box"
\* an element was drawn at scale 2 in a layer clipped to the contour of the element
\* its url() refers to
C29_WitnessContour ==
    \E n \in Nodes :
        /\ Layered(n) /\ tree[n].clip_path.tag = "Url" /\ scale > 1
        /\ LayerClip(n).kind = "shape" /\ LayerClip(n).node # n

\* the style and the alpha of the resolved colour of the edge draw_border_edge was
\* called for
EdgeStyle == shape_call.cx.border[shape_call.edge].style
EdgeAlpha ==
    LET c == shape_call.cx.border[shape_call.edge].color
    IN IF c.tag = "CurrentColor" THEN shape_call.cx.color.alpha ELSE c.alpha

\* C30: draw_border_edge issues nothing for an edge of style none or hidden or of a
\* colour that resolves to alpha 0; for every other edge it issues exactly one
\* command on the contour of that edge: a stroke when the style is dotted or dashed,
\* a fill otherwise
C30_OneCommandPerEdge ==
    Returned_("draw_border_edge") =>
        \A out \in {shape_ret.value} :
            IF EdgeStyle \in {"None", "Hidden"} \/ EdgeAlpha = 0 THEN out = <<>>
            ELSE /\ Len(out) = 1
                 /\ out[1].cmd = (IF EdgeStyle \in {"Dotted", "Dashed"} THEN "stroke" ELSE "fill")
                 /\ out[1].path = border_edge_shape(shape_call.edge)
                 /\ out[1].color.alpha = EdgeAlpha
\* a groove edge in currentcolor was filled while the other edges have no border
C30_Witness ==
    /\ Returned_("draw_border_edge")
    /\ EdgeStyle = "Groove" /\ shape_call.cx.border[shape_call.edge].color = CurrentColor
    /\ \E d \in Edges : shape_call.cx.border[d].style = "None"
    /\ Len(shape_ret.value) = 1 /\ shape_ret.value[1].cmd = "fill"
\* a dotted edge was stroked; a solid edge of a transparent colour issued nothing
C30_WitnessStroke ==
    /\ Returned_("draw_border_edge")
    /\ EdgeStyle = "Dotted" /\ Len(shape_ret.value) = 1 /\ shape_ret.value[1].cmd = "stroke"
C30_WitnessTransparent ==
    /\ Returned_("draw_border_edge")
    /\ EdgeStyle = "Solid" /\ EdgeAlpha = 0 /\ shape_ret.value = <<>>
    /\ \E d \in Edges : d # shape_call.edge /\ shape_call.cx.border[d].style = "Solid"

\* a dotted border edge or a dotted outline was stroked: its width
DottedStroked ==
    \/ /\ Returned_("draw_border_edge") /\ EdgeStyle = "Dotted" /\ shape_ret.value # <<>>
    \/ /\ Returned_("draw_outline") /\ shape_call.cx.outline_style = OutlineBorderStyle("Dotted")
DottedWidth ==
    IF shape_call.fn = "draw_border_edge" THEN shape_call.cx.border_width[shape_call.edge]
    ELSE shape_call.cx.outline_width

\* C31 as stated: the stroke of a dotted edge or outline of width w has round caps,
\* width w and a dash pattern of dash w and gap w, for every w
C31_DottedAsStated ==
    DottedStroked =>
        \A s \in {shape_ret.value[1].stroke}, w \in {DottedWidth} :
            /\ Len(shape_ret.value) = 1 /\ shape_ret.value[1].cmd = "stroke"
            /\ s.start_cap = "Round" /\ s.end_cap = "Round"
            /\ s.width = w
            /\ s.dash_pattern = <<w, w>>

\* C31 amended: the stroke has round caps and width w; dash and gap both equal w when
\* w is at least 1 and both equal 1 when w is below 1
C31_DottedStroke ==
    DottedStroked =>
        \A s \in {shape_ret.value[1].stroke}, w \in {DottedWidth} :
            /\ Len(shape_ret.value) = 1 /\ shape_ret.value[1].cmd = "stroke"
            /\ s.start_cap = "Round" /\ s.end_cap = "Round"
            /\ s.width = w
            /\ s.dash_pattern = (IF w >= One THEN <<w, w>> ELSE <<One, One>>)
\* a dotted border edge half a pixel wide was stroked with dashes and gaps of one pixel
C31_Witness ==
    /\ Returned_("draw_border_edge") /\ EdgeStyle = "Dotted"
    /\ DottedWidth = One \div 2
    /\ Len(shape_ret.value) = 1
    /\ shape_ret.value[1].stroke.width = One \div 2
    /\ shape_ret.value[1].stroke.dash_pattern = <<One, One>>
\* a dotted outline of width 0 and one wider than a pixel
C31_WitnessOutline ==
    /\ Returned_("draw_outline") /\ DottedStroked /\ DottedWidth = 0
    /\ shape_ret.value[1].stroke.dash_pattern = <<One, One>>
C31_WitnessWide ==
    /\ Returned_("draw_outline") /\ DottedStroked /\ DottedWidth > One
    /\ shape_ret.value[1].stroke.dash_pattern = <<DottedWidth, DottedWidth>>

\* element_cx returned for a style whose transform is truly three-dimensional
Returned3d ==
    /\ Returned_("element_cx")
    /\ shape_call.style.transform.tag = "Ok" /\ shape_call.style.transform.has_3d
\* the transform element_cx gives the same element under another style
TransformUnder(style) ==
    element_cx(style, shape_call.layout, shape_call.box_position, shape_call.scale).transform

\* C32: for a truly three-dimensional transform the element's transform is exactly the
\* translation to its box position times the device scale, the same as for an identity
\* two-dimensional transform, whatever the transform-origin
C32_No3dTransform ==
    Returned3d =>
        /\ shape_ret.value.transform
             = AffineTranslate(Pt(Mul(shape_call.box_position.x, shape_call.scale),
                                  Mul(shape_call.box_position.y, shape_call.scale)))
        /\ \A o \in TransformOrigins :
             /\ shape_ret.value.transform
                  = TransformUnder([transform |-> TransformOk(Transform3DDefault, FALSE),
                                    transform_origin |-> o])
             /\ shape_ret.value.transform
                  = TransformUnder([shape_call.style EXCEPT !.transform_origin = o])
\* a turn about the y axis with a transform-origin off the corner, at a moved box
C32_Witness ==
    /\ Returned3d
    /\ shape_call.style.transform.t.m11 # One
    /\ shape_call.style.transform_origin.horizontal = Percentage(One \div 2)
    /\ shape_call.layout.width > 0
    /\ shape_call.box_position # Pt(0, 0) /\ shape_call.scale = 2 * One
    /\ shape_ret.value.transform = <<One, 0, 0, One, 2 * One, 2 * MaxCoord * One>>
\* a two-dimensional scaling about the centre does change the transform
C32_Witness2d ==
    /\ Returned_("element_cx")
    /\ shape_call.style.transform = TransformOk(Transform3D(2 * One, 0, 0, 2 * One, 0, 0), FALSE)
    /\ shape_call.style.transform_origin.horizontal = Percentage(One \div 2)
    /\ shape_call.layout.width > 0 /\ shape_call.box_position = Pt(0, 0)
    /\ shape_call.scale = One
    /\ shape_ret.value.transform = <<2 * One, 0, 0, 2 * One, 0 - 2 * One, 0 - One>>

\* ---------------------------------------------------------------- the insert guard
\* the keys of clip_path_cache
CacheKeys == {n \in Nodes : clip_path_cache[n].some}
\* clip_path_from_styles_inner has just been called for element n
Entered(n) == stack # <<>> /\ Top.pc = "enter" /\ Top.node = n

\* C33: the visited set and the keys of the cache are disjoint, clip_path_from_styles_inner
\* is never entered for an element of the visited set, and so no call returns through
\* the failed visited.insert
C33_InsertNeverFails ==
    /\ visited \cap CacheKeys = {}
    /\ \A n \in Nodes : Entered(n) => n \notin visited
    /\ last_ret.how # "visited"
\* inside a cycle a -> b -> a with a third element cached: b is entered through a's url()
\* while a is in progress, and b's own url() back to a is refused by clip_path_from_url
C33_Witness ==
    \E a, b \in Nodes :
        /\ a # b /\ RefersTo(a, b) /\ RefersTo(b, a)
        /\ CacheKeys # {}
        /\ Len(stack) = 2 /\ stack[1].node = a /\ Entered(b)
        /\ visited = {a}
\* the refusal: b left with no contour while a is still in the set
C33_WitnessRefused ==
    \E a, b \in Nodes :
        /\ a # b /\ RefersTo(a, b) /\ RefersTo(b, a)
        /\ Len(stack) = 2 /\ stack[1].node = a /\ Top.node = b /\ Top.pc = "exit"
        /\ Top.path = None /\ visited = {a, b}

\* ---------------------------------------------------------------- cache transparency
\* the contour of a path, apart from which allocation holds it
Contour(p) == [some |-> p.some, kind |-> p.kind, node |-> p.node, len |-> p.len]
\* clip_path_from_styles_inner with lines 583-586 and 621-623 taken out: a resolver
\* that has no cache
RECURSIVE clip_path_uncached(_, _)
clip_path_uncached(n, vis) ==
    LET cp == tree[n].clip_path
        target == clip_path_from_url(cp.fragment, visited_insert(vis, n))
    IN IF n \in vis THEN None
       ELSE CASE cp.tag = "None" -> None
              [] cp.tag = "Box" -> clip_path_for_geometry_box(n, 1)
              [] cp.tag = "Shape" -> basic_shape_to_path(n, 1)
              [] cp.tag = "Url" -> IF target = 0 THEN None
                                   ELSE clip_path_uncached(target, visited_insert(vis, n))
\* the elements some earlier top-level call of the pass resolved to a contour
ResolvedEarlier == {m \in Nodes : clip_path_cache[m].some}

\* C34: whatever was resolved earlier in the pass, and in whatever order, the value
\* clip_path_from_styles returns for an element is the one a resolver without a cache
\* returns for it, for every url() graph
C34_CacheTransparent ==
    \A n \in Nodes :
        Resolved(n) =>
            Contour(result.path) = Contour(scale_result(clip_path_uncached(n, {}), scale))
\* an element resolved through the cache entry another top-level call left behind
C34_Witness ==
    \E a, b \in Nodes :
        /\ a # b /\ RefersTo(a, b)
        /\ Resolved(a) /\ result.path.some /\ result.path.node = b
        /\ calls[b] = 1 /\ last_ret.how = "hit"
        /\ ResolvedEarlier = Nodes
\* an element on a cycle resolved after the element the cycle was first entered from
C34_WitnessCycle ==
    \E a, b, c \in Nodes :
        /\ a # b /\ a # c /\ b # c
        /\ RefersTo(a, b) /\ RefersTo(b, a)
        /\ Resolved(b) /\ ~result.path.some
        /\ cached_clip_path[a] = None /\ ResolvedEarlier = {c}

\* ---------------------------------------------------------------- the back-reference
\* the last return of clip_path_from_styles_inner was for element n, through exit how
ReturnedBy(n, how) == last_ret.node = n /\ last_ret.how = how

\* C35: after clip_path_from_styles_inner returns for an element through the cache-hit,
\* success or failure exit, the element's back-reference equals the returned value (the
\* cache entry on a hit or success, none on failure), and every element in the cache
\* has the cached contour as its back-reference
C35_BackReference ==
    /\ \A n \in Nodes :
         /\ ReturnedBy(n, "hit") \/ ReturnedBy(n, "success") =>
              /\ last_ret.value.some
              /\ cached_clip_path[n] = last_ret.value
              /\ clip_path_cache[n] = last_ret.value
         /\ ReturnedBy(n, "failure") =>
              /\ last_ret.value = None
              /\ cached_clip_path[n] = None
    /\ \A n \in CacheKeys : cached_clip_path[n] = clip_path_cache[n]
\* a hit on an element: the back-reference is the entry an earlier call stored
C35_Witness ==
    \E n \in Nodes :
        /\ ReturnedBy(n, "hit") /\ calls[n] = 1
        /\ cached_clip_path[n] = clip_path_cache[n] /\ clip_path_cache[n].some
\* a failure on an element that carried the contour of an earlier frame
C35_WitnessFailure ==
    \E n \in Nodes :
        /\ ReturnedBy(n, "failure") /\ tree[n].stale
        /\ cached_clip_path[n] = None /\ n \notin CacheKeys
\* a success through url(): the referring element now holds the referenced contour
C35_WitnessSuccess ==
    \E a, b \in Nodes :
        /\ a # b /\ RefersTo(a, b) /\ ReturnedBy(a, "success")
        /\ cached_clip_path[a] = clip_path_cache[b] /\ clip_path_cache[b].some

\* ---------------------------------------------------------------- control points
\* a control point of command c as the claim reads it: offset by the current point when
\* the command is in relative (by) coordinates, taken as it stands when absolute (to)
ControlOf(c, pair, cur) ==
    IF c.point.by_to = "by" THEN Pt(cur.x + pair.x, cur.y + pair.y) ELSE Pt(pair.x, pair.y)

\* C36: the control points of a curve command in relative coordinates are resolved
\* relative to the current point, like its endpoint; those of a command in absolute
\* coordinates are taken as absolute
C36_RelativeControls ==
    Returned_("commands_to_bez_path") =>
        \A k \in DOMAIN shape_call.cmds :
            LET c == shape_call.cmds[k]
                cur == After(k - 1).current_point
            IN /\ c.cmd = "QuadCurve" => LastEl(k).c1 = ControlOf(c, c.control1, cur)
               /\ c.cmd = "CubicCurve" =>
                     /\ LastEl(k).c1 = ControlOf(c, c.control1, cur)
                     /\ LastEl(k).c2 = ControlOf(c, c.control2, cur)
               /\ c.cmd = "SmoothCubic" => LastEl(k).c2 = ControlOf(c, c.control2, cur)
               /\ c.cmd \in {"QuadCurve", "CubicCurve", "SmoothCubic"} =>
                     LastEl(k).p = ControlOf(c, c.point, cur)

\* ---------------------------------------------------------------- subpaths
\* the elements a command list's contour has, and those of them that are move-to
PathAfter(k) == After(k).path
MoveTos(path) == {i \in DOMAIN path : path[i].el = "MoveTo"}
Moves(k) == {j \in 1..k : shape_call.cmds[j].cmd = "Move"}

\* C37 as stated: a non-empty contour begins with a move-to, and a close marker is
\* never directly followed by a line, curve or arc element
C37_WellFormedAsStated ==
    Returned_("commands_to_bez_path") =>
        \A path \in {shape_ret.value.path} :
            /\ path # <<>> => path[1].el = "MoveTo"
            /\ \A i \in DOMAIN path :
                 (path[i].el = "ClosePath" /\ i < Len(path)) => path[i + 1].el = "MoveTo"

\* C37 amended: a non-empty contour begins with a move-to; a move-to is emitted for
\* each Move command and once more before the first command when that is not a Move,
\* and for nothing else, so the element of a drawing command that follows Close comes
\* directly after the close marker and starts from the subpath start
C37_Subpaths ==
    Returned_("commands_to_bez_path") =>
        \A path \in {shape_ret.value.path}, n \in {Len(shape_call.cmds)} :
            /\ path # <<>> => path[1].el = "MoveTo"
            /\ Cardinality(MoveTos(path))
                 = Cardinality(Moves(n))
                   + (IF n > 0 /\ shape_call.cmds[1].cmd # "Move" THEN 1 ELSE 0)
            /\ \A k \in 2..n :
                 (shape_call.cmds[k - 1].cmd = "Close" /\ shape_call.cmds[k].cmd # "Move") =>
                     /\ PathAfter(k) = Append(PathAfter(k - 1), LastEl(k))
                     /\ LastEl(k - 1) = ClosePath
                     /\ LastEl(k).el # "MoveTo"
                     /\ After(k - 1).current_point = StartAfter(k - 1)
\* Move to (1,1), Close, a relative line: the line-to follows the close marker
C37_Witness ==
    /\ Returned_("commands_to_bez_path")
    /\ shape_call.cmds = <<MoveCmd(ToPosition(One, One)), CloseCmd, LineCmd(ByCoordinate(0, One))>>
    /\ shape_ret.value.path = <<MoveTo(Pt(One, One)), ClosePath, LineTo(Pt(One, 2 * One))>>
\* a list that starts with a curve: the contour starts with a move-to at (0,0)
C37_WitnessImplicitStart ==
    /\ Returned_("commands_to_bez_path")
    /\ Len(shape_call.cmds) = MaxCmds
    /\ shape_call.cmds[1].cmd = "CubicCurve" /\ Moves(MaxCmds) = {}
    /\ shape_ret.value.path[1] = MoveTo(Pt(0, 0))
    /\ Len(shape_ret.value.path) = MaxCmds + 1

\* ---------------------------------------------------------------- the keyboard
\* handle_keypress has returned for a key-up event; the returned document carries the
\* account of what the handler dispatched and of its clipboard accesses
KeyUp == Returned_("handle_keypress") /\ ~shape_call.event.pressed

\* C38: a key-up event changes nothing in handle_keypress, whatever the key: the focus
\* stays, no text or selection is edited, the clipboard is neither read nor written
\* and no event is dispatched
C38_KeyUpChangesNothing ==
    KeyUp => shape_ret.value = shape_call.doc

\* a key press was handled; the text of a text input before and after it
KeyDown == Returned_("handle_keypress") /\ shape_call.event.pressed
TextBefore(id) == shape_call.doc.nodes[id].special_data.editor.text
TextAfter(id) == shape_ret.value.nodes[id].special_data.editor.text
\* copy, and the keys that move the caret or the selection
LeavesText(event) ==
    \/ event.action_mod /\ (event.key = KeyCharacter("c") \/ event.code = "KeyC")
    \/ event.action_mod /\ event.key = KeyCharacter("a")
    \/ event.key.tag \in {"ArrowLeft", "ArrowRight", "Home", "End"}

\* C39: a key press that changes the text of the focused text input dispatches exactly
\* one Input event, which carries the new text; copy and caret or selection movement
\* dispatch none
C39_InputEventOnEdit ==
    KeyDown =>
        /\ \A id \in {InputId, TextareaId} :
             TextAfter(id) # TextBefore(id) =>
                 shape_ret.value.dispatched = <<DomEvent(id, InputEvent(TextAfter(id)))>>
        /\ LeavesText(shape_call.event) => shape_ret.value.dispatched = <<>>
\* the part of C39 that holds: any Input event dispatched carries the text the focused
\* input has afterwards, and every edit but Enter in a multiline input is announced
C39_InputEventButEnter ==
    KeyDown =>
        /\ \A id \in {InputId, TextareaId} :
             (TextAfter(id) # TextBefore(id) /\ shape_call.event.key.tag # "Enter") =>
                 shape_ret.value.dispatched = <<DomEvent(id, InputEvent(TextAfter(id)))>>
        /\ LeavesText(shape_call.event) => shape_ret.value.dispatched = <<>>
\* the part of C38 that holds: every key-up but Tab changes nothing
C38_KeyUpButTab ==
    (KeyUp /\ shape_call.event.key # KeyTab) => shape_ret.value = shape_call.doc

\* ---------------------------------------------------------------- the mouse
\* handle_click has returned for a click made while text input f had the focus
Clicked(f) ==
    /\ handled.fn = "handle_click"
    /\ handled.before.focus_node_id = f
    /\ f \in {InputId, TextareaId}
SelectionOf(d, f) == d.nodes[f].special_data.editor
\* the input lost the focus, or its selection changed
Lost(f) == doc.focus_node_id # f \/ SelectionOf(doc, f) # SelectionOf(handled.before, f)
DownInside == mousedown_was_inside(handled.before)
TargetInside == is_text_input_or_inside(handled.before, handled.target)
\* an enabled checkbox takes the click on the way up from the target
RECURSIVE TakenByCheckbox(_, _)
TakenByCheckbox(d, id) ==
    IF id = 0 THEN FALSE
    ELSE IF ~d.nodes[id].is_element THEN TakenByCheckbox(d, d.nodes[id].parent)
    ELSE IF d.nodes[id].disabled \/ d.nodes[id].special_data.tag = "TextInput" THEN FALSE
    ELSE IF d.nodes[id].type_attr = "checkbox" THEN TRUE
    ELSE TakenByCheckbox(d, d.nodes[id].parent)

C40_WitnessCleared ==
    /\ Clicked(InputId) /\ handled.target = DivId
    /\ doc.mousedown_node_id = DivId
    /\ SelectionOf(handled.before, InputId) = Editor(<<"a", "b">>, 0, 2)
    /\ doc.focus_node_id = 0
    /\ SelectionOf(doc, InputId) = Editor(<<"a", "b">>, 2, 2)
\* mouse-down in the input, release and click over the checkbox: it takes the focus
C40_WitnessCheckbox ==
    /\ Clicked(InputId) /\ handled.target = CheckboxId
    /\ doc.mousedown_node_id = InputId
    /\ doc.focus_node_id = CheckboxId /\ doc.nodes[CheckboxId].checked
    /\ SelectionOf(doc, InputId) = SelectionOf(handled.before, InputId)
====
